---------------------------- MODULE Spec2Model ----------------------------
(***************************************************************************)
(* A model of histoprint's rendering core (src/histoprint/formatter.py):   *)
(* the Hixel cell compositor, the BinFormatter and the HistFormatter.      *)
(*                                                                         *)
(* Text is a sequence of lines, a line a sequence of tokens.  A token is   *)
(* one code point (a one-character string, or a named code point such as   *)
(* "U+2588") or one ANSI escape sequence ("ESC[97;100m").                  *)
(*                                                                         *)
(* Python floats are modelled as exact rationals [k |-> "fin", n, d] with  *)
(* d > 0, plus "inf", "ninf" and "nan".  Within the bounds below no        *)
(* quotient taken by the program is within rounding distance of an         *)
(* integer (the program's 0.999 factors see to that), so floor division    *)
(* over the rationals agrees with floor division over the floats.          *)
(***************************************************************************)
EXTENDS Integers, Sequences, FiniteSets, TLC

(***************************************************************************)
(* Arithmetic and sequence helpers.                                        *)
(***************************************************************************)
Abs(x) == IF x < 0 THEN -x ELSE x

Max2(a, b) == IF a >= b THEN a ELSE b

\* Python's a // b on integers (floor division), for b # 0.
FloorDiv(a, b) == IF b > 0 THEN a \div b ELSE (-a) \div (-b)

RECURSIVE GCD(_, _)
GCD(a, b) == IF b = 0 THEN (IF a = 0 THEN 1 ELSE Abs(a)) ELSE GCD(b, a % b)

RECURSIVE Pow10(_)
Pow10(e) == IF e <= 0 THEN 1 ELSE 10 * Pow10(e - 1)

RECURSIVE SumSeq(_)
SumSeq(s) == IF s = <<>> THEN 0 ELSE Head(s) + SumSeq(Tail(s))

RECURSIVE Flatten(_)
Flatten(ss) == IF ss = <<>> THEN <<>> ELSE Head(ss) \o Flatten(Tail(ss))

Repeat(x, n) == [i \in 1..n |-> x]

\* itertools.cycle(seq), read at the (1-based) position i.
Cycle(seq, i) == seq[((i - 1) % Len(seq)) + 1]

\* Python's seq[:h] for any integer h (a negative h counts from the end).
SliceTo(seq, h) ==
    LET stop == IF h >= 0 THEN (IF h > Len(seq) THEN Len(seq) ELSE h)
                ELSE Max2(Len(seq) + h, 0)
    IN SubSeq(seq, 1, stop)

(***************************************************************************)
(* Floats.                                                                 *)
(***************************************************************************)
Fin(n, d) ==
    LET g == GCD(Abs(n), Abs(d))
        s == IF d < 0 THEN -1 ELSE 1
    IN [k |-> "fin", n |-> (s * n) \div g, d |-> (s * d) \div g]

Inf == [k |-> "inf", n |-> 1, d |-> 0]

NegInf == [k |-> "ninf", n |-> -1, d |-> 0]

NaN == [k |-> "nan", n |-> 0, d |-> 0]

IsZero(x) == x.k = "fin" /\ x.n = 0

\* numpy's x / y for a numpy scalar x and an integer y (no exception on y = 0).
NpDivInt(x, y) ==
    IF x.k # "fin" THEN x
    ELSE IF y # 0 THEN Fin(x.n, x.d * y)
    ELSE IF x.n > 0 THEN Inf
    ELSE IF x.n < 0 THEN NegInf
    ELSE NaN

\* x * (p / q) for positive integers p, q.
MulRat(x, p, q) == IF x.k = "fin" THEN Fin(x.n * p, x.d * q) ELSE x

\* x * w for an integer w.
MulInt(x, w) ==
    CASE x.k = "fin" -> Fin(x.n * w, x.d)
      [] x.k = "nan" -> NaN
      [] w = 0 -> NaN
      [] (x.k = "inf") = (w > 0) -> Inf
      [] OTHER -> NegInf

\* x < y on finite values.
FinLess(x, y) == x.n * y.d < y.n * x.d

\* int(c // x) for an integer c; "nan" when the quotient is not a number
\* (int() then raises ValueError).
IntFloorDiv(c, x) ==
    CASE x.k = "fin" /\ x.n # 0 -> FloorDiv(c * x.d, x.n)
      [] x.k = "inf" -> IF c < 0 THEN -1 ELSE 0
      [] x.k = "ninf" -> IF c > 0 THEN -1 ELSE 0
      [] OTHER -> 0

(***************************************************************************)
(* Module constants (formatter.py lines 13-16).                            *)
(***************************************************************************)
DEFAULT_SYMBOLS == <<" ", "|", "=", "/", "\\">>

COMPOSING_SYMBOLS == {"/", "\\"}

DEFAULT_FG_COLORS == <<"W", "W", "W", "W", "W">>

DEFAULT_BG_COLORS == <<"K", "0", "0", "0", "0">>

\* The palette of colour codes (the keys of ansi_color_string's table).
Palette == {"k", "r", "g", "y", "b", "m", "c", "w", "0",
            "K", "R", "G", "Y", "B", "M", "C", "W"}

(***************************************************************************)
(* Hixel: the smallest unit of a histogram plot.                           *)
(***************************************************************************)
None == "None"

\* A variant that also admits the combined glyph "#".
allowed_withHash == {" ", "=", "|", "\\", "/", "#"}

allowed == {" ", "=", "|", "\\", "/"}

\* dict.get((a, b), default) on char_combinations.
char_combinations(a, b, default) ==
    CASE a = "|" /\ b = "=" -> "#"
      [] a = "=" /\ b = "|" -> "#"
      [] a = "#" /\ b = "=" -> "#"
      [] a = "#" /\ b = "|" -> "#"
      [] OTHER -> default

\* compose_combinations as it would be if a diagonal simply replaced the one
\* before it (C7 must tell the difference).
compose_combinations_overwrite(a, b) == b

\* dict.get((a, b)) on compose_combinations: None when the pair is no key.
compose_combinations(a, b) ==
    CASE a = "/" /\ b = "\\" -> "X"
      [] a = "\\" /\ b = "/" -> "X"
      [] a = " " /\ b = "\\" -> "\\"
      [] a = " " /\ b = "/" -> "/"
      [] OTHER -> None

\* The branch of Hixel.add taken when fg equals the cell's foreground.
Combine(h, char) ==
    IF char \in COMPOSING_SYMBOLS
    THEN IF h.compose # None
         THEN [h EXCEPT !.compose = compose_combinations(h.compose, char)]
         ELSE h
    ELSE [h EXCEPT !.character = char_combinations(h.character, char, char)]

\* SetBg as it would be if the transparent background overwrote as well.
SetBg_always(h, bg) == [h EXCEPT !.bg_color = bg]

\* The background rule at the end of Hixel.add.
SetBg(h, bg) == IF bg # "0" THEN [h EXCEPT !.bg_color = bg] ELSE h

\* Hixel.add as it would be if a mark of another foreground cleared the
\* compose slot along with the glyph.
add_clearing(h, char, fg, bg) ==
    SetBg(IF fg = h.fg_color THEN Combine(h, char)
          ELSE IF char # " "
               THEN SetBg(Combine([h EXCEPT !.character = " ", !.fg_color = fg,
                                            !.compose = IF @ = None THEN None
                                                        ELSE " "], char), bg)
               ELSE h, bg)

\* Hixel.add as it would be if a mark of another foreground were merged
\* with the glyph that is there.
add_merging(h, char, fg, bg) ==
    SetBg(IF fg = h.fg_color THEN Combine(h, char)
          ELSE IF char # " "
               THEN SetBg(Combine([h EXCEPT !.fg_color = fg], char), bg)
               ELSE h, bg)

\* Hixel.add for an allowed symbol (any other symbol raises before the cell
\* is touched, see AddRaises).
RECURSIVE add(_, _, _, _)
add(h, char, fg, bg) ==
    LET h1 == IF fg = h.fg_color THEN Combine(h, char)
              ELSE IF char # " "
                   THEN add([h EXCEPT !.character = " ", !.fg_color = fg],
                            char, fg, bg)
                   ELSE h
    IN SetBg(h1, bg)

AddRaises(char) == char \notin allowed

\* Hixel.__init__ as it would be if it made a cell of the default colours
\* and left the rest to add.
Hixel_viaAdd(char, fg, bg, use_color, compose) ==
    add([character |-> " ", compose |-> compose, fg_color |-> "0",
         bg_color |-> "0", use_color |-> use_color], char, fg, bg)

\* Hixel.__init__ for an allowed symbol.
Hixel(char, fg, bg, use_color, compose) ==
    add([character |-> " ", compose |-> compose, fg_color |-> fg,
         bg_color |-> bg, use_color |-> use_color], char, fg, bg)

\* The ANSI colour codes of ansi_color_string.
subs_color(c) ==
    CASE c = "k" -> 30 [] c = "r" -> 31 [] c = "g" -> 32 [] c = "y" -> 33
      [] c = "b" -> 34 [] c = "m" -> 35 [] c = "c" -> 36 [] c = "w" -> 37
      [] c = "0" -> 39
      [] c = "K" -> 90 [] c = "R" -> 91 [] c = "G" -> 92 [] c = "Y" -> 93
      [] c = "B" -> 94 [] c = "M" -> 95 [] c = "C" -> 96 [] c = "W" -> 97

\* One escape sequence as one token.
EscToken(fg, bg) ==
    "ESC[" \o ToString(subs_color(fg)) \o ";" \o ToString(subs_color(bg) + 10) \o "m"

\* ansi_color_string as it would be if it wrote the escape sequence
\* whether or not colour is in use.
ansi_color_string_always(h, fg, bg) == <<EscToken(fg, bg)>>

ansi_color_string(h, fg, bg) ==
    IF h.use_color THEN <<EscToken(fg, bg)>> ELSE <<>>

\* str.swapcase on a colour code.
swapcase(c) ==
    CASE c = "k" -> "K" [] c = "r" -> "R" [] c = "g" -> "G" [] c = "y" -> "Y"
      [] c = "b" -> "B" [] c = "m" -> "M" [] c = "c" -> "C" [] c = "w" -> "W"
      [] c = "K" -> "k" [] c = "R" -> "r" [] c = "G" -> "g" [] c = "Y" -> "y"
      [] c = "B" -> "b" [] c = "M" -> "m" [] c = "C" -> "c" [] c = "W" -> "w"
      [] OTHER -> c

\* subs.get(x, default) of substitute_character, as a sequence of code points.
subs_char(x, default) ==
    CASE x = "|" -> <<"U+2502">>
      [] x = "=" -> <<"U+2550">>
      [] x = "#" -> <<"U+256A">>
      [] x = "\\" -> <<"U+20E5">>
      [] x = "/" -> <<"U+20EB">>
      [] x = "X" -> <<"U+20E5", "U+20EB">>
      [] x = None -> <<>>
      [] OTHER -> default

substitute_character(char, compose) ==
    subs_char(char, <<char>>) \o subs_char(compose, <<"U+034F">>)

\* render as it would be without the block branch.
render_glyphOnly(h, reset) ==
    ansi_color_string(h, h.fg_color, h.bg_color)
    \o substitute_character(h.character, h.compose)
    \o (IF reset THEN ansi_color_string(h, "0", "0") ELSE <<>>)

render(h, reset) ==
    LET body == IF /\ h.character = " "
                   /\ (h.compose = " " \/ h.compose = None)
                   /\ h.bg_color # "0"
                THEN ansi_color_string(h, h.bg_color, swapcase(h.bg_color))
                     \o <<"U+2588">>
                ELSE ansi_color_string(h, h.fg_color, h.bg_color)
                     \o substitute_character(h.character, h.compose)
    IN body \o (IF reset THEN ansi_color_string(h, "0", "0") ELSE <<>>)

\* Tokens that take no column on the terminal: escape sequences and the
\* zero-width combining marks.
EscapeTokens == {EscToken(f, b) : f \in Palette, b \in Palette}

CombiningMarks == {"U+20E5", "U+20EB", "U+034F"}

IsVisible(tok) == tok \notin EscapeTokens /\ tok \notin CombiningMarks

VisibleLen(line) == Cardinality({i \in 1..Len(line) : IsVisible(line[i])})

(***************************************************************************)
(* Number formatting.                                                      *)
(***************************************************************************)
Digit(d) ==
    CASE d = 0 -> "0" [] d = 1 -> "1" [] d = 2 -> "2" [] d = 3 -> "3"
      [] d = 4 -> "4" [] d = 5 -> "5" [] d = 6 -> "6" [] d = 7 -> "7"
      [] d = 8 -> "8" [] d = 9 -> "9"

\* The decimal digits of a natural number, most significant first.
RECURSIVE Digits(_)
Digits(n) == IF n < 10 THEN <<Digit(n)>> ELSE Digits(n \div 10) \o <<Digit(n % 10)>>

\* The decimal digits of n, left-padded with zeros to at least w digits.
ZeroPad(n, w) ==
    LET ds == Digits(n)
    IN Repeat("0", Max2(w - Len(ds), 0)) \o ds

\* |x| * scale rounded to the nearest integer, for a finite x.
RoundScaled(x, scale) == (2 * Abs(x.n) * scale + x.d) \div (2 * x.d)

\* str.format's right alignment (the default for numbers, ">" for strings).
PadLeft(toks, w) == Repeat(" ", Max2(w - Len(toks), 0)) \o toks

\* str.format's left alignment ("<", the default for strings).
PadRight(toks, w) == toks \o Repeat(" ", Max2(w - Len(toks), 0))

\* str.format's centring ("^"): the odd space goes to the right.
PadCentre(toks, w) ==
    LET pad == Max2(w - Len(toks), 0)
    IN Repeat(" ", pad \div 2) \o toks \o Repeat(" ", pad - pad \div 2)

\* "{: #7.3f}".format(x) for a finite x: sign or space, three decimals,
\* right-aligned in seven columns.
Format7_3f(x) ==
    LET m == RoundScaled(x, 1000)
        body == <<(IF x.n < 0 THEN "-" ELSE " ")>> \o Digits(m \div 1000)
                \o <<".">> \o ZeroPad(m % 1000, 3)
    IN PadLeft(body, 7)

\* The default tick_format "{: #7.3f} " applied to x.
tick_format(x) == Format7_3f(x) \o <<" ">>

Zero == Fin(0, 1)

(***************************************************************************)
(* BinFormatter: turns bin contents into text.                             *)
(***************************************************************************)
\* Optional arguments: <<>> is Python's None, <<v>> a given value.
Given(opt) == opt # <<>>

\* BinFormatter.__init__ (tick_format, tick_mark and no_tick_mark at their
\* defaults); kw is the record of keyword arguments.
BinFormatter(kw) ==
    [scale |-> Fin(1, 1),
     count_area |-> kw.count_area,
     tick_format_width |-> Len(tick_format(Zero)),
     tick_mark |-> <<"_">>,
     no_tick_mark |-> <<" ">>,
     print_top_edge |-> kw.print_top_edge,
     symbols |-> IF kw.symbols = <<>> THEN <<" ">> ELSE kw.symbols,
     fg_colors |-> IF kw.fg_colors = <<>> THEN <<"0">> ELSE kw.fg_colors,
     bg_colors |-> IF kw.bg_colors = <<>> THEN <<"0">> ELSE kw.bg_colors,
     stack |-> kw.stack,
     use_color |-> IF Given(kw.use_color) THEN kw.use_color[1]
                   ELSE (\E i \in 1..Len(kw.fg_colors) : kw.fg_colors[i] # "0")
                        \/ (\E i \in 1..Len(kw.bg_colors) : kw.bg_colors[i] # "0"),
     compose |-> None]

tick(bf, edge) == tick_format(edge) \o bf.tick_mark

no_tick(bf) == Repeat(" ", bf.tick_format_width) \o bf.no_tick_mark

\* EffectiveScale as it would be without the guard against a zero scale.
EffectiveScale_noGuard(bf, width) ==
    IF bf.count_area THEN MulInt(bf.scale, width) ELSE bf.scale

\* "scale = self.scale * (width if self.count_area else 1)", then the guard
\* "if scale == 0: scale = 1.0".
EffectiveScale(bf, width) ==
    LET scale == IF bf.count_area THEN MulInt(bf.scale, width) ELSE bf.scale
    IN IF IsZero(scale) THEN Fin(1, 1) ELSE scale

\* "heights = [int(c // scale) for c in counts]".
Heights(bf, counts, width) ==
    [i \in 1..Len(counts) |-> IntFloorDiv(counts[i], EffectiveScale(bf, width))]

\* int() of a quotient that is not a number raises ValueError: the scale is
\* nan, or it is zero (a count divided by a float zero is nan or infinite).
HeightsRaise(bf, counts, width) ==
    /\ counts # <<>>
    /\ EffectiveScale(bf, width).k = "nan" \/ IsZero(EffectiveScale(bf, width))

\* "Decide whether to use composing characters".
DecideCompose(bf, counts) ==
    IF \E i \in 1..Len(bf.symbols) :
           i <= Len(counts) /\ bf.symbols[i] \in COMPOSING_SYMBOLS
    THEN " "
    ELSE None

\* DrawSeries as it would be if the stack branch made its Hixels without
\* passing the compose setting on (C4 must tell the difference).
DrawSeries_stackNoCompose(bf, line, h, s, fg, bg) ==
    IF h = 0 THEN line
    ELSE IF bf.stack
    THEN line \o Repeat(Hixel(s, fg, bg, bf.use_color, " "), h)
    ELSE IF h > Len(line)
    THEN [p \in 1..Len(line) |-> add(line[p], s, fg, bg)]
         \o Repeat(Hixel(s, fg, bg, bf.use_color, bf.compose), h - Len(line))
    ELSE LET n == Len(SliceTo(line, h))
         IN [p \in 1..Len(line) |->
                IF p <= n THEN add(line[p], s, fg, bg) ELSE line[p]]

\* DrawSeries as it would be if the stack flag were ignored and every
\* series overlaid (C8 must tell the difference).
DrawSeries_alwaysOverlay(bf, line, h, s, fg, bg) ==
    IF h = 0 THEN line
    ELSE IF h > Len(line)
    THEN [p \in 1..Len(line) |-> add(line[p], s, fg, bg)]
         \o Repeat(Hixel(s, fg, bg, bf.use_color, bf.compose), h - Len(line))
    ELSE LET n == Len(SliceTo(line, h))
         IN [p \in 1..Len(line) |->
                IF p <= n THEN add(line[p], s, fg, bg) ELSE line[p]]

\* DrawSeries as it would be if a series taller than the line only
\* lengthened it, leaving no mark on the cells that are there.
DrawSeries_lengthenOnly(bf, line, h, s, fg, bg) ==
    IF h = 0 THEN line
    ELSE IF bf.stack
    THEN line \o Repeat(Hixel(s, fg, bg, bf.use_color, bf.compose), h)
    ELSE IF h > Len(line)
    THEN line \o Repeat(Hixel(s, fg, bg, bf.use_color, bf.compose), h - Len(line))
    ELSE LET n == Len(SliceTo(line, h))
         IN [p \in 1..Len(line) |->
                IF p <= n THEN add(line[p], s, fg, bg) ELSE line[p]]

\* One series drawn onto the line built so far (the body of the "Print
\* symbols" loop), with height h, symbol s and colours fg, bg.
DrawSeries(bf, line, h, s, fg, bg) ==
    IF h = 0 THEN line
    ELSE IF bf.stack
    THEN line \o Repeat(Hixel(s, fg, bg, bf.use_color, bf.compose), h)
    ELSE IF h > Len(line)
    THEN [p \in 1..Len(line) |-> add(line[p], s, fg, bg)]
         \o Repeat(Hixel(s, fg, bg, bf.use_color, bf.compose), h - Len(line))
    ELSE LET n == Len(SliceTo(line, h))
         IN [p \in 1..Len(line) |->
                IF p <= n THEN add(line[p], s, fg, bg) ELSE line[p]]

\* Whether drawing the series raises ValueError: a Hixel is made, or an
\* existing one added to, with a symbol that is not allowed.
DrawRaises(bf, line, h, s) ==
    /\ AddRaises(s)
    /\ h # 0
    /\ IF bf.stack THEN h > 0
       ELSE IF h > Len(line) THEN TRUE
       ELSE Len(SliceTo(line, h)) > 0

\* The cells of one line of the bin after the first i series are drawn.
RECURSIVE BuildLine(_, _, _)
BuildLine(bf, heights, i) ==
    IF i = 0 THEN <<>>
    ELSE DrawSeries(bf, BuildLine(bf, heights, i - 1), heights[i],
                    Cycle(bf.symbols, i), Cycle(bf.fg_colors, i),
                    Cycle(bf.bg_colors, i))

LineRaises(bf, heights) ==
    \E i \in 1..Len(heights) :
        DrawRaises(bf, BuildLine(bf, heights, i - 1), heights[i],
                   Cycle(bf.symbols, i))

\* AxisPrefix as it would be if the last line of a bin were labelled
\* whichever edge is asked for.
AxisPrefix_lastLine(bf, top, bottom, i_line, width) ==
    IF i_line = width - 1
    THEN tick(bf, IF bf.print_top_edge THEN top ELSE bottom)
    ELSE no_tick(bf)

\* The axis prefix of line i_line (0-based) of a bin of width lines.
AxisPrefix(bf, top, bottom, i_line, width) ==
    IF bf.print_top_edge /\ i_line = 0 THEN tick(bf, top)
    ELSE IF ~bf.print_top_edge /\ i_line = width - 1 THEN tick(bf, bottom)
    ELSE no_tick(bf)

RenderLine(cells) == Flatten([p \in 1..Len(cells) |-> render(cells[p], TRUE)])

\* BinFormatter.format_bin: the formatter after the call (its compose field
\* is rewritten), the lines returned, the cells of each line before they
\* are rendered, and the exception raised, if any.
format_bin(bf, top, bottom, counts, width) ==
    IF HeightsRaise(bf, counts, width)
    THEN [bf |-> bf, lines |-> <<>>, cells |-> <<>>, raised |-> "ValueError"]
    ELSE LET heights == Heights(bf, counts, width)
             bf1 == [bf EXCEPT !.compose = DecideCompose(bf, counts)]
             line == BuildLine(bf1, heights, Len(heights))
         IN IF width >= 1 /\ LineRaises(bf1, heights)
            THEN [bf |-> bf1, lines |-> <<>>, cells |-> <<>>,
                  raised |-> "ValueError"]
            ELSE [bf |-> bf1,
                  lines |-> [l \in 1..width |->
                                AxisPrefix(bf1, top, bottom, l - 1, width)
                                \o RenderLine(line)],
                  cells |-> [l \in 1..width |-> line],
                  raised |-> "none"]

(***************************************************************************)
(* "%g" formatting (used for the peak annotation of the axis header).      *)
(***************************************************************************)
\* The decimal exponent of a positive rational a / d: the X with
\* 10^X <= a / d < 10^(X + 1).
RECURSIVE Exponent10(_, _)
Exponent10(a, d) ==
    IF a < d THEN Exponent10(10 * a, d) - 1
    ELSE IF a >= 10 * d THEN Exponent10(a, 10 * d) + 1
    ELSE 0

\* a / d * 10^e rounded to the nearest integer, for any integer e.
RoundPow10(a, d, e) ==
    IF e >= 0 THEN (2 * a * Pow10(e) + d) \div (2 * d)
    ELSE (2 * a + d * Pow10(-e)) \div (2 * d * Pow10(-e))

RECURSIVE StripZeros(_)
StripZeros(m) == IF m > 0 /\ m % 10 = 0 THEN StripZeros(m \div 10) ELSE m

\* "e+XX" / "e-XX": the exponent part of an exponent notation.
ExpPart(X) ==
    <<"e", (IF X < 0 THEN "-" ELSE "+")>> \o ZeroPad(Abs(X), 2)

\* format(x, "g") for a finite x: six significant digits, trailing zeros
\* removed, exponent notation when the exponent is < -4 or >= 6.
GFormat(x) ==
    IF x.n = 0 THEN <<"0">>
    ELSE LET a == Abs(x.n)
             X0 == Exponent10(a, x.d)
             m0 == RoundPow10(a, x.d, 5 - X0)
             X == IF m0 >= 1000000 THEN X0 + 1 ELSE X0
             m == IF m0 >= 1000000 THEN 100000 ELSE m0
             sig == Digits(StripZeros(m))
             k == Len(sig)
             sign == IF x.n < 0 THEN <<"-">> ELSE <<>>
         IN sign \o
            (IF X < -4 \/ X >= 6
             THEN <<sig[1]>> \o (IF k > 1 THEN <<".">> \o SubSeq(sig, 2, k) ELSE <<>>)
                  \o ExpPart(X)
             ELSE IF X >= 0
             THEN SubSeq(sig, 1, IF k < X + 1 THEN k ELSE X + 1)
                  \o Repeat("0", Max2(X + 1 - k, 0))
                  \o (IF k > X + 1 THEN <<".">> \o SubSeq(sig, X + 2, k) ELSE <<>>)
             ELSE <<"0", ".">> \o Repeat("0", -X - 1) \o sig)

(***************************************************************************)
(* HistFormatter: the layout of a whole histogram.                         *)
(***************************************************************************)
\* "any(len(lab) > 0 for lab in self.labels)".
AnyLabel(labels) == \E i \in 1..Len(labels) : Len(labels[i]) > 0

\* HistLines as it would be if no row were set aside for a legend.
HistLines_noLegend(lines, title, labels, summary) ==
    lines - 1
    - (IF Len(title) > 0 THEN 1 ELSE 0)
    - (IF summary THEN 4 ELSE 0)

\* The rows left for the bins (HistFormatter.__init__, "self.hist_lines").
HistLines(lines, title, labels, summary) ==
    lines - 1
    - (IF Len(title) > 0 THEN 1 ELSE 0)
    - (IF summary THEN 4 ELSE IF AnyLabel(labels) THEN 1 ELSE 0)

BinWidths(edges) == [i \in 1..(Len(edges) - 1) |-> edges[i + 1] - edges[i]]

RECURSIVE MaxSeq(_)
MaxSeq(s) == IF Len(s) = 1 THEN s[1] ELSE Max2(s[1], MaxSeq(Tail(s)))

\* "line_scale", with its guard against 0.
LineScale(edges, hist_lines, scale_bin_width) ==
    LET ls == IF scale_bin_width
              THEN MulRat(NpDivInt(Fin(edges[Len(edges)] - edges[1], 1),
                                   hist_lines), 999, 1000)
              ELSE Fin(MaxSeq(BinWidths(edges)), 1)
    IN IF IsZero(ls) THEN Fin(1, 1) ELSE ls

\* "self.bin_lines": widths // line_scale as integers, with 0 replaced by 1.
BinLines(edges, hist_lines, scale_bin_width) ==
    LET ls == LineScale(edges, hist_lines, scale_bin_width)
        w == BinWidths(edges)
    IN [i \in 1..Len(w) |->
           LET n == IntFloorDiv(w[i], ls)
           IN IF n # 0 THEN n ELSE 1]

\* HistFormatter.__init__; kw holds every keyword argument, those passed on
\* to the BinFormatter included.
HistFormatter(edges, kw) ==
    LET hist_lines == HistLines(kw.lines, kw.title, kw.labels, kw.summary)
    IN [title |-> kw.title,
        edges |-> edges,
        lines |-> kw.lines,
        columns |-> kw.columns,
        summary |-> kw.summary,
        labels |-> kw.labels,
        max_count |-> kw.max_count,
        hist_lines |-> hist_lines,
        bin_lines |-> BinLines(edges, hist_lines, kw.scale_bin_width),
        bin_formatter |-> BinFormatter(kw)]

(***************************************************************************)
(* HistFormatter.summarize.                                                *)
(***************************************************************************)
\* floor(p * 10^k / q) for p >= 0, q > 0, by long division.
RECURSIVE ScaledRem(_, _, _)
ScaledRem(p, q, k) == IF k = 0 THEN p % q ELSE (ScaledRem(p, q, k - 1) * 10) % q

RECURSIVE ScaledFloor(_, _, _)
ScaledFloor(p, q, k) ==
    IF k = 0 THEN p \div q
    ELSE 10 * ScaledFloor(p, q, k - 1) + (ScaledRem(p, q, k - 1) * 10) \div q

\* The three significant digits and the exponent of a positive rational
\* a / d, as format(x, ".2e") rounds them.
E2Parts(a, d) ==
    LET X0 == Exponent10(a, d)
        m0 == RoundPow10(a, d, 2 - X0)
    IN IF m0 >= 1000 THEN [m |-> 100, X |-> X0 + 1] ELSE [m |-> m0, X |-> X0]

\* The same for the square root of a positive rational a / d: m is the
\* integer nearest to sqrt(a / d) * 10^(2 - X).
E2PartsSqrt(a, d) ==
    LET X == FloorDiv(Exponent10(a, d), 2)
        k == 4 - 2 * X
        F == IF k >= 0 THEN ScaledFloor(4 * a, d, k)
             ELSE (4 * a) \div (d * Pow10(-k))
        m0 == CHOOSE m \in 100..1000 :
                  (2 * m - 1) * (2 * m - 1) <= F /\ F < (2 * m + 1) * (2 * m + 1)
    IN IF m0 >= 1000 THEN [m |-> 100, X |-> X + 1] ELSE [m |-> m0, X |-> X]

E2Tokens(negative, parts) ==
    <<(IF negative THEN "-" ELSE " "), Digit(parts.m \div 100), ".",
      Digit((parts.m \div 10) % 10), Digit(parts.m % 10)>> \o ExpPart(parts.X)

\* format(x, " .2e").
E2Format(x) ==
    IF x.k = "nan" THEN <<" ", "n", "a", "n">>
    ELSE IF x.n = 0 THEN E2Tokens(FALSE, [m |-> 0, X |-> 0])
    ELSE E2Tokens(x.n < 0, E2Parts(Abs(x.n), x.d))

\* format(sqrt(x), " .2e"): the square root of a negative number is nan.
E2FormatSqrt(x) ==
    IF x.k = "nan" \/ x.n < 0 THEN <<" ", "n", "a", "n">>
    ELSE IF x.n = 0 THEN E2Tokens(FALSE, [m |-> 0, X |-> 0])
    ELSE E2Tokens(FALSE, E2PartsSqrt(x.n, x.d))

\* Floating-point edge values: edges / 10**common_exponent.
ScaledEdge(e, ce) == Fin(e, Pow10(ce))

\* sum(w[i] * (a[i] + b[i])) for integer sequences.
RECURSIVE WeightedSum(_, _, _)
WeightedSum(w, a, b) ==
    IF w = <<>> THEN 0
    ELSE w[1] * (a[1] + b[1]) + WeightedSum(Tail(w), Tail(a), Tail(b))

\* np.average(bin_values, weights=c), bin_values = (top + bottom) / 2 with
\* the edges scaled by 10^ce; nan when the weights sum to zero.
Average(c, top, bottom, ce) ==
    IF SumSeq(c) = 0 THEN NaN
    ELSE Fin(WeightedSum(c, top, bottom), 2 * Pow10(ce) * SumSeq(c))

\* sum(w[i] * (a[i] + b[i] - 2 * mu)^2) for the rational mu = mn / md,
\* times md^2.
RECURSIVE WeightedSquares(_, _, _, _, _)
WeightedSquares(w, a, b, mn, md) ==
    IF w = <<>> THEN 0
    ELSE w[1] * ((a[1] + b[1]) * md - 2 * mn) * ((a[1] + b[1]) * md - 2 * mn)
         + WeightedSquares(Tail(w), Tail(a), Tail(b), mn, md)

\* np.average((bin_values - average) ** 2, weights=c): the variance whose
\* square root is the "Std" value.
Variance(c, top, bottom, ce) ==
    IF SumSeq(c) = 0 THEN NaN
    ELSE LET mu == Fin(WeightedSum(c, top, bottom), 2 * SumSeq(c))
             v == Fin(WeightedSquares(c, top, bottom, mu.n, mu.d),
                      4 * mu.d * mu.d * SumSeq(c))
         IN Fin(v.n, v.d * Pow10(ce) * Pow10(ce))

\* The number of legend entries: zip(counts, cycle(labels), ...).
LegendEntries(hf, counts) == IF hf.labels = <<>> THEN 0 ELSE Len(counts)

\* "pad_lab": the label padded to make room for the numbers below.
PadLab(hf, i) == PadRight(Cycle(hf.labels, i), 9)

LabelWidths(hf, counts) ==
    [i \in 1..LegendEntries(hf, counts) |-> 3 + Len(PadLab(hf, i))]

SummaryPad(hf, counts) ==
    Max2(hf.columns - (5 + SumSeq(LabelWidths(hf, counts))), 0) \div 2

\* The symbol of series i as shown in the legend.
LegendHixel(hf, i) ==
    LET bf == hf.bin_formatter
    IN Hixel(Cycle(bf.symbols, i), Cycle(bf.fg_colors, i),
             Cycle(bf.bg_colors, i), bf.use_color, bf.compose)

\* First line: symbol, label.
LegendLine(hf, counts) ==
    Repeat(" ", SummaryPad(hf, counts)) \o Repeat(" ", 5)
    \o Flatten([i \in 1..LegendEntries(hf, counts) |->
                   <<" ">> \o render(LegendHixel(hf, i), TRUE) \o <<" ">>
                   \o PadLab(hf, i)])

\* One statistic line: the name, then one value per series, each padded to
\* the width of its label.
StatLine(hf, counts, name, values) ==
    Repeat(" ", SummaryPad(hf, counts)) \o name
    \o Flatten([i \in 1..LegendEntries(hf, counts) |->
                   <<" ">> \o values[i]
                   \o Repeat(" ", LabelWidths(hf, counts)[i] - 10)])

\* np.sum of an empty label_widths list is the float 0.0, pad is then a
\* float, and " " * pad raises TypeError.
PadRaises(hf, counts) == LegendEntries(hf, counts) = 0

SummarizeRaises(hf, counts) ==
    \E i \in 1..LegendEntries(hf, counts) :
        AddRaises(Cycle(hf.bin_formatter.symbols, i))

\* HistFormatter.summarize for a symbol cycle that raises nothing; top and
\* bottom are the unscaled edges, ce the common exponent.
summarize(hf, counts, top, bottom, ce, legend_only) ==
    IF legend_only THEN <<LegendLine(hf, counts)>>
    ELSE <<LegendLine(hf, counts),
           StatLine(hf, counts, <<"T", "o", "t", ":">>,
                    [i \in 1..Len(counts) |-> E2Format(Fin(SumSeq(counts[i]), 1))]),
           StatLine(hf, counts, <<"A", "v", "g", ":">>,
                    [i \in 1..Len(counts) |->
                        E2Format(Average(counts[i], top, bottom, ce))]),
           StatLine(hf, counts, <<"S", "t", "d", ":">>,
                    [i \in 1..Len(counts) |->
                        E2FormatSqrt(Variance(counts[i], top, bottom, ce))])>>

(***************************************************************************)
(* HistFormatter.format_histogram.  counts is two-dimensional: one         *)
(* sequence of per-bin counts for each series.                             *)
(***************************************************************************)
NBins(hf) == Len(hf.edges) - 1

\* "counts.T[b]": the counts of every series in bin b.
Column(counts, b) == [i \in 1..Len(counts) |-> counts[i][b]]

AxisWidth(hf) ==
    hf.bin_formatter.tick_format_width + Len(hf.bin_formatter.tick_mark)

HistWidth(hf) == hf.columns - AxisWidth(hf)

\* "tot_c": the sum (stack) or the maximum (overlay) over the series.
TotC(hf, counts, b) ==
    IF hf.bin_formatter.stack THEN SumSeq(Column(counts, b))
    ELSE MaxSeq(Column(counts, b))

\* "c": the bin content, divided by the number of lines in count-area mode.
BinContent(hf, counts, b) ==
    IF hf.bin_formatter.count_area
    THEN Fin(TotC(hf, counts, b), hf.bin_lines[b])
    ELSE Fin(TotC(hf, counts, b), 1)

RECURSIVE MaxContent(_, _, _)
MaxContent(hf, counts, b) ==
    IF b = 1 THEN BinContent(hf, counts, 1)
    ELSE LET m == MaxContent(hf, counts, b - 1)
             x == BinContent(hf, counts, b)
         IN IF FinLess(m, x) THEN x ELSE m

\* "max_c".
MaxC(hf, counts) ==
    IF Given(hf.max_count) THEN Fin(hf.max_count[1], 1)
    ELSE MaxContent(hf, counts, NBins(hf))

\* SymbolScale as it would be if the scale were computed only once per
\* formatter and kept for later calls (C9 must tell the difference).
SymbolScale_cached(hf, counts) ==
    IF hf.bin_formatter.scale # Fin(1, 1) THEN hf.bin_formatter.scale
    ELSE MulRat(NpDivInt(MaxC(hf, counts), HistWidth(hf)), 999, 1000)

\* "symbol_scale * 0.999", the value stored in self.bin_formatter.scale.
SymbolScale(hf, counts) ==
    MulRat(NpDivInt(MaxC(hf, counts), HistWidth(hf)), 999, 1000)

\* max_count is a Python number: dividing it by a zero hist_width raises.
ScaleRaises(hf) == Given(hf.max_count) /\ HistWidth(hf) = 0

\* "np.floor(np.log10(np.max(np.abs(self.edges))))" for edges whose largest
\* absolute value is at least 1.
RECURSIVE MaxAbs(_)
MaxAbs(s) == IF Len(s) = 1 THEN Abs(s[1]) ELSE Max2(Abs(s[1]), MaxAbs(Tail(s)))

CommonExponent(edges) == Exponent10(MaxAbs(edges), 1)

\* "ce_string".
CeString(ce) ==
    IF ce = 0 THEN <<>>
    ELSE <<" ", "x", " ", "1", "0", "^", (IF ce < 0 THEN "-" ELSE "+")>>
         \o ZeroPad(Abs(ce), 2)

LongestCount(hf, counts) ==
    GFormat(MaxC(hf, counts))
    \o (IF hf.bin_formatter.count_area THEN <<"/", "r", "o", "w">> ELSE <<>>)

\* The title line, if any.
TitleLines(hf) ==
    IF Len(hf.title) > 0 THEN <<PadCentre(hf.title, hf.columns)>> ELSE <<>>

\* "the first tick, common exponent and horizontal axis".
HeaderLine(hf, counts) ==
    LET ce == CommonExponent(hf.edges)
    IN tick(hf.bin_formatter, ScaledEdge(hf.edges[1], ce))
       \o CeString(ce)
       \o PadLeft(LongestCount(hf, counts),
                  HistWidth(hf) - Len(CeString(ce)) - 2)
       \o <<" ", "U+2577">>

\* A negative field width in a format specification raises ValueError.
HeadRaises(hf) ==
    \/ Len(hf.title) > 0 /\ hf.columns < 0
    \/ HistWidth(hf) - Len(CeString(CommonExponent(hf.edges))) - 2 < 0

\* Lines 427-478: the scale is stored in the bin formatter, then the title
\* and the axis header are written.
Prologue(hf, counts) ==
    IF ScaleRaises(hf)
    THEN [hf |-> hf, lines |-> <<>>, raised |-> "ZeroDivisionError"]
    ELSE LET hf1 == [hf EXCEPT !.bin_formatter.scale = SymbolScale(hf, counts)]
         IN IF HeadRaises(hf1)
            THEN [hf |-> hf1, lines |-> <<>>, raised |-> "ValueError"]
            ELSE [hf |-> hf1,
                  lines |-> TitleLines(hf1) \o <<HeaderLine(hf1, counts)>>,
                  raised |-> "none"]

\* One round of the "Write the bins" loop, on the result acc so far.
BinStep(acc, counts, b) ==
    IF acc.raised # "none" THEN acc
    ELSE LET hf == acc.hf
             ce == CommonExponent(hf.edges)
             r == format_bin(hf.bin_formatter, ScaledEdge(hf.edges[b], ce),
                             ScaledEdge(hf.edges[b + 1], ce),
                             Column(counts, b), hf.bin_lines[b])
         IN [hf |-> [hf EXCEPT !.bin_formatter = r.bf],
             lines |-> acc.lines \o r.lines,
             cells |-> acc.cells \o <<r.cells>>,
             raised |-> r.raised]

RECURSIVE WriteBins(_, _, _)
WriteBins(acc, counts, b) ==
    IF b = 0 THEN acc ELSE BinStep(WriteBins(acc, counts, b - 1), counts, b)

\* Lines 484-489: the summary, the legend or nothing.
Epilogue(acc, counts) ==
    IF acc.raised # "none" THEN acc
    ELSE LET hf == acc.hf
             top == SubSeq(hf.edges, 1, NBins(hf))
             bottom == SubSeq(hf.edges, 2, NBins(hf) + 1)
             ce == CommonExponent(hf.edges)
         IN IF ~hf.summary /\ ~AnyLabel(hf.labels) THEN acc
            ELSE IF SummarizeRaises(hf, counts)
            THEN [acc EXCEPT !.raised = "ValueError"]
            ELSE IF PadRaises(hf, counts)
            THEN [acc EXCEPT !.raised = "TypeError"]
            ELSE [acc EXCEPT !.lines =
                      @ \o summarize(hf, counts, top, bottom, ce, ~hf.summary)]

\* The result so far when the bins are about to be written.
Started(p) ==
    [hf |-> p.hf, lines |-> p.lines, cells |-> <<>>, raised |-> p.raised]

\* What the caller gets: the text, or the exception and no text.
Returned(res) ==
    IF res.raised = "none" THEN res
    ELSE [res EXCEPT !.lines = <<>>, !.cells = <<>>]

\* format_histogram as a whole: the formatter after the call, the text
\* returned (when nothing is raised), the cells of every bin line, and the
\* exception raised, if any.
format_histogram(hf, counts) ==
    Returned(Epilogue(WriteBins(Started(Prologue(hf, counts)), counts, NBins(hf)),
                      counts))

\* print_hist: a formatter of its own for every call.
print_hist(edges, counts, kw) == format_histogram(HistFormatter(edges, kw), counts)

(***************************************************************************)
(* Histogram arguments.  An array is [ndim, data]: data is a row of floats *)
(* for ndim = 1 and a sequence of rows for ndim = 2.  A histogram argument *)
(* is a tuple [kind |-> "tuple", values, edges], a PlottableHistogram      *)
(* [kind |-> "plottable", values, axis] whose axis is its sequence of      *)
(* <<lower, upper>> bins, or a sequence [kind |-> "sequence", items].      *)
(***************************************************************************)
\* nan_to_num as it would be if it left the value alone.
nan_to_num_asis(x) == x

\* np.nan_to_num on one element: nan becomes 0.0 (infinite values, which
\* it replaces by the largest floats, are not among the inputs).
nan_to_num(x) == IF x.k = "nan" THEN Fin(0, 1) ELSE x

\* "while counts.ndim < 2: counts = counts[np.newaxis, ...]".
AtLeast2D(a) == IF a.ndim = 1 THEN [ndim |-> 2, data |-> <<a.data>>] ELSE a

\* Lines 432-435: the counts argument as the array the rest of
\* format_histogram works on.
CountsArray(a) ==
    LET m == AtLeast2D(a).data
    IN [i \in 1..Len(m) |-> [b \in 1..Len(m[i]) |-> nan_to_num(m[i][b])]]

\* format_histogram from its first line.  A nan that stayed in the array
\* would make the scale nan, and the int() of format_bin line 260 raise
\* ValueError.
format_counts(hf, a) ==
    LET m == CountsArray(a)
    IN IF \E i \in 1..Len(m) : \E b \in 1..Len(m[i]) : m[i][b].k # "fin"
       THEN [hf |-> [hf EXCEPT !.bin_formatter.scale = NaN], lines |-> <<>>,
             cells |-> <<>>, raised |-> "ValueError"]
       ELSE format_histogram(hf, [i \in 1..Len(m) |->
                                     [b \in 1..Len(m[i]) |-> m[i][b].n]])

\* uhi's ensure_plottable_histogram: a (values, edges) tuple is wrapped, its
\* axis yielding the bin i as the pair (edges[i], edges[i + 1]); a
\* PlottableHistogram is returned as it is.
ensure_plottable_histogram(h) ==
    IF h.kind = "plottable" THEN h
    ELSE [kind |-> "plottable", values |-> h.values,
          axis |-> [i \in 1..(Len(h.edges) - 1) |-> <<h.edges[i], h.edges[i + 1]>>]]

get_plottable_protocol_bin_edges(axis) ==
    <<axis[1][1]>> \o [i \in 1..Len(axis) |-> axis[i][2]]

\* StackValues as it would be if only the first histogram were taken.
StackValues_firstOnly(items) == [ndim |-> 2, data |-> <<items[1].values.data>>]

\* "np.stack([h.values() for h in hist])" for one-dimensional values.
StackValues(items) ==
    [ndim |-> 2, data |-> [i \in 1..Len(items) |-> items[i].values.data]]

\* get_count_edges: count, edges, and the AssertionError of assert_allclose
\* when the histograms of a sequence do not share their edges.
get_count_edges(h) ==
    IF h.kind = "sequence"
    THEN LET edges == get_plottable_protocol_bin_edges(h.items[1].axis)
         IN [count |-> StackValues(h.items), edges |-> edges,
             raised |-> IF \E i \in 2..Len(h.items) :
                               get_plottable_protocol_bin_edges(h.items[i].axis)
                               # edges
                        THEN "AssertionError" ELSE "none"]
    ELSE LET p == ensure_plottable_histogram(h)
         IN [count |-> p.values,
             edges |-> get_plottable_protocol_bin_edges(p.axis),
             raised |-> "none"]

\* What print_hist writes for the count and edges that get_count_edges
\* returned, and the exception it ends with.
Written(ce, kw) ==
    IF ce.raised # "none"
    THEN [lines |-> <<>>, raised |-> ce.raised]
    ELSE LET r == format_counts(HistFormatter(ce.edges, kw), ce.count)
         IN [lines |-> r.lines, raised |-> r.raised]

\* print_hist for a histogram argument of any kind.
print_hist_of(h, kw) == Written(get_count_edges(h), kw)

(***************************************************************************)
(* What format_histogram writes to the arrays of its caller.  An array     *)
(* that format_histogram works on is [own, data]: own tells whether it has *)
(* memory of its own or is a view of the caller's array, through which an  *)
(* operation in place writes to the caller's array.                        *)
(***************************************************************************)
\* np.array as it would be if it returned a view of its argument.
np_array_view(data) == [own |-> FALSE, data |-> data]

\* np.array(x): a copy of x.
np_array(data) == [own |-> TRUE, data |-> data]

\* "top /= 10**common_exponent" on one element.
DivideInPlace(x, ce) == Fin(x.n, x.d * Pow10(ce))

\* The caller's edges after lines 462-467: top is made from edges[:-1],
\* bottom from edges[1:], and both are divided in place.
EdgesAfter(edges, ce) ==
    LET n == Len(edges) - 1
        top == np_array(SubSeq(edges, 1, n))
        bottom == np_array(SubSeq(edges, 2, n + 1))
        e1 == IF top.own THEN edges
              ELSE [i \in 1..(n + 1) |->
                       IF i <= n THEN DivideInPlace(edges[i], ce) ELSE edges[i]]
    IN IF bottom.own THEN e1
       ELSE [i \in 1..(n + 1) |->
                IF i >= 2 THEN DivideInPlace(e1[i], ce) ELSE e1[i]]

\* The caller's counts after line 432: np.nan_to_num returns a new array
\* (copy=True), made from the copy that np.array returned, and nothing
\* after it assigns to an element of counts.
CountsAfter(values) == values

(***************************************************************************)
(* rich.py.  A Text is the sequence of its lines, every line the sequence  *)
(* of its characters with the style each one is shown in, and the three    *)
(* attributes __rich__ sets.                                               *)
(***************************************************************************)
\* The style an escape sequence of ansi_color_string selects: its two SGR
\* codes, foreground and background.
StyleOf(tok) ==
    LET p == CHOOSE q \in Palette \X Palette : EscToken(q[1], q[2]) = tok
    IN <<subs_color(p[1]), subs_color(p[2]) + 10>>

\* AnsiDecoder.decode_line: an escape sequence changes the style of what
\* follows and is not part of the text.
RECURSIVE decode_line(_, _, _)
decode_line(line, style, acc) ==
    IF line = <<>> THEN [spans |-> acc, style |-> style]
    ELSE IF Head(line) \in EscapeTokens
         THEN decode_line(Tail(line), StyleOf(Head(line)), acc)
         ELSE decode_line(Tail(line), style,
                          Append(acc, [ch |-> Head(line), style |-> style]))

\* AnsiDecoder.decode: the style carries over from line to line.
RECURSIVE decode(_, _, _)
decode(lines, style, acc) ==
    IF lines = <<>> THEN acc
    ELSE LET d == decode_line(Head(lines), style, <<>>)
         IN decode(Tail(lines), d.style, Append(acc, d.spans))

\* Text.from_ansi.
from_ansi(lines) ==
    [lines |-> decode(lines, <<None, None>>, <<>>), justify |-> None,
     overflow |-> None, no_wrap |-> None]

\* RichHistogram(hist, **kwargs): the histogram is referred to, not copied,
\* so the object holds the keyword arguments only; text is what its last
\* __rich__ call returned.
RichHistogram(kwargs) == [kind |-> "rich", kwargs |-> kwargs, text |-> <<>>]

\* The Text made from what format_histogram returned.
RichText(r) ==
    IF r.raised # "none" THEN [r EXCEPT !.text = <<>>]
    ELSE [r EXCEPT !.text = <<[from_ansi(r.lines) EXCEPT !.justify = "left",
                                                         !.overflow = "ellipsis",
                                                         !.no_wrap = TRUE]>>]

\* __rich__ as it would be if it kept the Text it has made once.
__rich___cached(self, h) ==
    IF self.text # <<>>
    THEN [hf |-> HistFormatter(get_count_edges(h).edges, self.kwargs),
          lines |-> <<>>, cells |-> <<>>, raised |-> "none", text |-> self.text]
    ELSE LET ce == get_count_edges(h)
             r == format_counts(HistFormatter(ce.edges, self.kwargs), ce.count)
         IN RichText([hf |-> r.hf, lines |-> r.lines, cells |-> r.cells,
                      raised |-> r.raised, text |-> <<>>])

\* self.__rich__() when self.hist is the histogram h (a tuple, for which
\* get_count_edges does not raise).
__rich__(self, h) ==
    LET ce == get_count_edges(h)
        r == format_counts(HistFormatter(ce.edges, self.kwargs), ce.count)
    IN RichText([hf |-> r.hf, lines |-> r.lines, cells |-> r.cells,
                 raised |-> r.raised, text |-> <<>>])

(***************************************************************************)
(* Bounds and inputs.                                                      *)
(***************************************************************************)
\* Counts are drawn from 0..MaxCount.
MaxCount == 2

\* The widest column budget.
MaxColumns == 15

\* The largest line budget.
MaxLines == 7

\* The keyword arguments at their defaults, for a terminal of 6 lines and
\* MaxColumns columns.
DefaultKw ==
    [lines |-> 6, columns |-> MaxColumns, scale_bin_width |-> TRUE,
     title |-> <<>>, labels |-> << <<>> >>, summary |-> FALSE,
     max_count |-> <<>>, count_area |-> TRUE, print_top_edge |-> FALSE,
     symbols |-> DEFAULT_SYMBOLS, fg_colors |-> DEFAULT_FG_COLORS,
     bg_colors |-> DEFAULT_BG_COLORS, stack |-> FALSE, use_color |-> <<>>]

\* Symbol and colour cycles: the defaults, the two diagonals in one colour
\* (in both orders), two line symbols in two colours, and one diagonal for
\* every series.
Styles ==
    {[symbols |-> DEFAULT_SYMBOLS, fg_colors |-> DEFAULT_FG_COLORS,
      bg_colors |-> DEFAULT_BG_COLORS],
     [symbols |-> <<"/", "\\">>, fg_colors |-> <<"W">>, bg_colors |-> <<"0">>],
     [symbols |-> <<"\\", "/">>, fg_colors |-> <<"0", "0">>,
      bg_colors |-> <<"0", "r">>],
     [symbols |-> <<"|", "=">>, fg_colors |-> <<"r", "b">>,
      bg_colors |-> <<"0", "0">>],
     [symbols |-> <<"/">>, fg_colors |-> <<"0">>, bg_colors |-> <<"0">>]}

\* Setups that vary how the bins are drawn; they are rendered with every
\* count array of one or two series.
DrawSetups ==
    {[edges |-> <<0, 1, 3>>, family |-> "draw",
      kw |-> [DefaultKw EXCEPT !.lines = 4, !.columns = c, !.stack = st,
                               !.count_area = ca, !.symbols = sty.symbols,
                               !.fg_colors = sty.fg_colors,
                               !.bg_colors = sty.bg_colors]] :
        c \in {MaxColumns - 2, MaxColumns}, st \in BOOLEAN,
        ca \in BOOLEAN, sty \in Styles}

\* The draw setups of full width: formatters that are called more than once.
SharedSetups == {s \in DrawSetups : s.kw.columns = MaxColumns}

\* Setups that vary the layout of the whole histogram.
LayoutSetups ==
    {[edges |-> e, family |-> "layout",
      kw |-> [DefaultKw EXCEPT !.lines = l, !.title = t, !.labels = lab,
                               !.summary = su, !.scale_bin_width = sbw,
                               !.use_color = <<FALSE>>]] :
        e \in {<<0, 1, 2>>, <<10, 20, 40>>}, l \in 0..MaxLines,
        t \in {<<>>, <<"T", "i">>}, lab \in {<< <<>> >>, << <<"A">>, <<"B">> >>},
        su \in BOOLEAN, sbw \in BOOLEAN}

\* Setups at the edge of what fits: narrow column budgets, a max_count
\* override, a title wider than the column budget.
EdgeSetups ==
    {[edges |-> <<0, 1, 2>>, family |-> "edge",
      kw |-> [DefaultKw EXCEPT !.lines = 3, !.columns = c, !.max_count = mc,
                               !.title = t, !.use_color = <<FALSE>>]] :
        c \in {9, 10, 11, MaxColumns}, mc \in {<<>>, <<1>>},
        t \in {<<>>, Repeat("t", MaxColumns + 1)}}

\* Setups with a summary, wide enough for a common exponent in the header;
\* the labels are the default, one per series, or an empty sequence.
SummarySetups ==
    {[edges |-> e, family |-> "summary",
      kw |-> [DefaultKw EXCEPT !.lines = MaxLines, !.columns = MaxColumns + 9,
                               !.labels = lab, !.summary = TRUE,
                               !.use_color = <<FALSE>>]] :
        e \in {<<0, 1, 3>>, <<10, 20, 40>>},
        lab \in {<< <<>> >>, << <<"A">>, <<"B">> >>, <<>>}}

\* Setups that label the top edge of every bin.
TopEdgeSetups ==
    {[edges |-> e, family |-> "top",
      kw |-> [DefaultKw EXCEPT !.lines = l, !.print_top_edge = TRUE,
                               !.use_color = <<FALSE>>]] :
        e \in {<<0, 1, 3>>, <<10, 20, 40>>}, l \in {4, MaxLines}}

\* Setups that are rendered with counts of either sign.
SignedSetups ==
    {[edges |-> <<0, 1, 3>>, family |-> "signed",
      kw |-> [DefaultKw EXCEPT !.lines = 4, !.stack = st, !.count_area = ca,
                               !.symbols = <<"|", "=">>,
                               !.fg_colors = <<"r", "b">>,
                               !.bg_colors = <<"0", "0">>]] :
        st \in BOOLEAN, ca \in BOOLEAN}

Setups ==
    DrawSetups \cup LayoutSetups \cup EdgeSetups \cup SummarySetups
    \cup TopEdgeSetups \cup SignedSetups

\* The count arrays of one series over n bins.
CountRows(n) == [1..n -> 0..MaxCount]

\* Every count array of one or two series.
AllCounts(n) ==
    {<<r>> : r \in CountRows(n)}
    \cup {<<r1, r2>> : r1 \in CountRows(n), r2 \in CountRows(n)}

\* A few count arrays: all zero in one and in two series, one series, two
\* series.
FewCounts(n) ==
    {<<[b \in 1..n |-> 0]>>,
     <<[b \in 1..n |-> 0], [b \in 1..n |-> 0]>>,
     <<[b \in 1..n |-> IF b = 1 THEN MaxCount ELSE 1]>>,
     <<[b \in 1..n |-> IF b = 1 THEN 1 ELSE MaxCount], [b \in 1..n |-> b % 2]>>}

\* The values of a float array: counts, and nan.
RawValues == {Fin(0, 1), Fin(1, 1), Fin(MaxCount, 1), NaN}

RawRows(n) == [1..n -> RawValues]

\* Second rows of a two-dimensional float array: one with a nan, one without.
SecondRows(n) ==
    {[b \in 1..n |-> IF b = 1 THEN NaN ELSE Fin(1, 1)],
     [b \in 1..n |-> IF b = 1 THEN Fin(0, 1) ELSE Fin(MaxCount, 1)]}

Array1D(r) == [ndim |-> 1, data |-> r]

Array2D(m) == [ndim |-> 2, data |-> m]

\* The tuples (values, edges): values of one dimension, and of two.
TupleArgs(edges) ==
    LET n == Len(edges) - 1
    IN {[kind |-> "tuple", values |-> Array1D(r), edges |-> edges] :
           r \in RawRows(n)}
       \cup {[kind |-> "tuple", values |-> Array2D(<<r1, r2>>), edges |-> edges] :
                r1 \in RawRows(n), r2 \in SecondRows(n)}

\* A histogram object with the values r over the edges.
Plottable(r, edges) ==
    ensure_plottable_histogram([kind |-> "tuple", values |-> Array1D(r),
                                edges |-> edges])

\* Sequences of one or two histogram objects over the same edges, and of
\* two whose edges differ.
SequenceArgs(edges) ==
    LET n == Len(edges) - 1
    IN {[kind |-> "sequence", items |-> <<Plottable(r, edges)>>] :
           r \in RawRows(n)}
       \cup {[kind |-> "sequence",
              items |-> <<Plottable(r1, edges), Plottable(r2, edges)>>] :
                r1 \in RawRows(n), r2 \in SecondRows(n)}
       \cup {[kind |-> "sequence",
              items |-> <<Plottable(r, edges),
                          Plottable(r, [e \in 1..Len(edges) |-> edges[e] + 1])>>] :
                r \in SecondRows(n)}

\* The setups that histogram arguments are printed with: those with a
\* summary, and the draw setups of full width with the default symbols.
HistSetups ==
    SummarySetups \cup {s \in SharedSetups : s.kw.symbols = DEFAULT_SYMBOLS}

\* Count arrays of one and of two series with a negative count: next to a
\* positive count of the other series, and on its own.
SignedCounts(n) ==
    {<<[b \in 1..n |-> IF b = 1 THEN -1 ELSE MaxCount]>>,
     <<[b \in 1..n |-> MaxCount], [b \in 1..n |-> IF b = 1 THEN -1 ELSE 0]>>,
     <<[b \in 1..n |-> IF b = 1 THEN -1 ELSE 1], [b \in 1..n |-> MaxCount]>>,
     <<[b \in 1..n |-> IF b = 1 THEN -MaxCount ELSE 0], [b \in 1..n |-> 1]>>}

\* One series, or two series of which the second mirrors the first.
MirrorCounts(n) ==
    {<<r>> : r \in CountRows(n)}
    \cup {<<r, [b \in 1..n |-> r[n + 1 - b]]>> : r \in CountRows(n)}

(***************************************************************************)
(* State.                                                                  *)
(***************************************************************************)
VARIABLES
    family,     \* which inputs the formatter at hand is rendered with
    kw,         \* the keyword arguments the formatter was made with
    hf,         \* the HistFormatter object (its bin_formatter included)
    counts,     \* the argument of the last format_histogram call
    out,        \* the text that call returned
    cells,      \* the Hixels of every bin line of that call, before rendering
    raised,     \* the exception that call raised, or "none"
    leftover,   \* what that call found in the formatter: "fresh" (no call
                \* before it), "same" (the scale and compose fields it would
                \* store itself) or "other"
    hix,        \* a Hixel on its own
    hixOp,      \* the last operation on it: "init", "new", "add" or "render"
    hixRaised,  \* the exception that operation raised, or "none"
    hixText,    \* what the last render of it returned
    objs,       \* the HistFormatter objects that threads call
    thr,        \* per thread: where it is in format_histogram, the object
                \* it calls, its counts argument and its local variables
    hist,       \* the histogram argument of print_hist, or the histogram a
                \* RichHistogram refers to
    rich        \* a RichHistogram: its keyword arguments and the Text its
                \* last __rich__ call returned

histVars == <<family, kw, hf, counts, out, cells, raised, leftover>>

hixVars == <<hix, hixOp, hixRaised, hixText>>

thrVars == <<objs, thr>>

objVars == <<hist, rich>>

vars == <<histVars, hixVars, thrVars, objVars>>

\* No histogram object is at hand.
NoHistogram == hist = [kind |-> "none"] /\ rich = [kind |-> "none"]

\* No thread is running.
ThreadsIdle == objs = <<>> /\ thr = <<>>

\* Hixel(): a cell made with the constructor's defaults.
EmptyHixel(use_color, compose) == Hixel(" ", "0", "0", use_color, compose)

\* No Hixel is operated on.
HixelIdle ==
    /\ hix = EmptyHixel(TRUE, " ")
    /\ hixOp = "init"
    /\ hixRaised = "none"
    /\ hixText = <<>>

\* A formatter constructed for the setup s; nothing is rendered yet.
Constructed(s) ==
    /\ family = s.family
    /\ kw = s.kw
    /\ hf = HistFormatter(s.edges, s.kw)
    /\ counts = <<>>
    /\ out = <<>>
    /\ cells = <<>>
    /\ raised = "none"
    /\ leftover = "fresh"
    /\ NoHistogram
    /\ HixelIdle
    /\ ThreadsIdle

\* hist_formatter.format_histogram(c) on the formatter at hand.
Format(c) ==
    \E r \in {format_histogram(hf, c)} :
       /\ hf' = r.hf
       /\ counts' = c
       /\ out' = r.lines
       /\ cells' = r.cells
       /\ raised' = r.raised
       /\ leftover' = IF counts = <<>> THEN "fresh"
                      ELSE IF hf.bin_formatter = r.hf.bin_formatter THEN "same"
                      ELSE "other"
       /\ UNCHANGED <<family, kw, hixVars, thrVars, objVars>>

(***************************************************************************)
(* Spec: one histogram is printed (print_hist: a formatter is made, and    *)
(* format_histogram is called on it once).                                 *)
(***************************************************************************)
Init == \E s \in Setups : Constructed(s)

FormatHistogram ==
    /\ counts = <<>>
    /\ \E c \in (IF family = "draw" THEN AllCounts(NBins(hf))
                 ELSE IF family = "signed" THEN SignedCounts(NBins(hf))
                 ELSE FewCounts(NBins(hf))) : Format(c)

Next == FormatHistogram

Spec == Init /\ [][Next]_vars

(***************************************************************************)
(* SpecReuse: one formatter renders any number of histograms in turn.      *)
(***************************************************************************)
InitReuse == \E s \in SharedSetups : Constructed(s)

FormatAgain == \E c \in MirrorCounts(NBins(hf)) : Format(c)

NextReuse == FormatAgain

SpecReuse == InitReuse /\ [][NextReuse]_vars

(***************************************************************************)
(* SpecCell: one Hixel is made, added to and rendered.                     *)
(***************************************************************************)
\* The symbols tried: the allowed ones, and "#", which a cell may hold but
\* no caller may add.
CellChars == {" ", "=", "|", "\\", "/", "#"}

CellFg == {"0", "W"}

CellBg == {"0", "r", "K"}

InitCell ==
    /\ family = "cell"
    /\ kw = DefaultKw
    /\ hf = HistFormatter(<<0, 1>>, DefaultKw)
    /\ counts = <<>>
    /\ out = <<>>
    /\ cells = <<>>
    /\ raised = "none"
    /\ leftover = "fresh"
    /\ NoHistogram
    /\ \E uc \in BOOLEAN, c \in {" ", None} : hix = EmptyHixel(uc, c)
    /\ hixOp = "init"
    /\ hixRaised = "none"
    /\ hixText = <<>>
    /\ ThreadsIdle

\* hix.add(char, fg, bg).
CellAdd(char, fg, bg) ==
    /\ hixOp' = "add"
    /\ IF AddRaises(char)
       THEN hix' = hix /\ hixRaised' = "ValueError"
       ELSE hix' = add(hix, char, fg, bg) /\ hixRaised' = "none"
    /\ hixText' = <<>>
    /\ UNCHANGED <<histVars, thrVars, objVars>>

\* hix = Hixel(char, fg, bg, use_color, compose): when the constructor
\* raises, no new cell comes to be and the old one stays.
CellNew(char, fg, bg, compose) ==
    /\ hixOp' = "new"
    /\ IF AddRaises(char)
       THEN hix' = hix /\ hixRaised' = "ValueError"
       ELSE hix' = Hixel(char, fg, bg, hix.use_color, compose)
            /\ hixRaised' = "none"
    /\ hixText' = <<>>
    /\ UNCHANGED <<histVars, thrVars, objVars>>

\* hix.render(reset).
CellRender(reset) ==
    /\ hixOp' = "render"
    /\ hixText' = render(hix, reset)
    /\ hixRaised' = "none"
    /\ UNCHANGED <<hix, histVars, thrVars, objVars>>

Add == \E char \in CellChars, fg \in CellFg, bg \in CellBg : CellAdd(char, fg, bg)

New ==
    \E char \in CellChars, fg \in CellFg, bg \in CellBg, compose \in {" ", None} :
        CellNew(char, fg, bg, compose)

Render == \E reset \in BOOLEAN : CellRender(reset)

NextCell == Add \/ New \/ Render

SpecCell == InitCell /\ [][NextCell]_vars

(***************************************************************************)
(* SpecThreads: two threads call format_histogram, each with counts of its *)
(* own, on one HistFormatter or on one HistFormatter each (as print_hist   *)
(* makes them).  A thread can be preempted between the statements of       *)
(* format_histogram; the steps here are the part up to the header (which   *)
(* stores bin_formatter.scale), each format_bin call (which reads scale    *)
(* and stores compose) and the summary.                                    *)
(***************************************************************************)
Threads == {1, 2}

InitThreads ==
    \E s \in SharedSetups, own \in BOOLEAN :
        LET made == HistFormatter(s.edges, s.kw)
        IN /\ family = "threads"
           /\ kw = s.kw
           /\ hf = made
           /\ counts = <<>>
           /\ out = <<>>
           /\ cells = <<>>
           /\ raised = "none"
           /\ leftover = "fresh"
           /\ NoHistogram
           /\ HixelIdle
           /\ objs = IF own THEN <<made, made>> ELSE <<made>>
           /\ thr = [t \in Threads |->
                        [pc |-> "call", obj |-> IF own THEN t ELSE 1,
                         counts |-> <<>>, b |-> 0, lines |-> <<>>,
                         cells |-> <<>>, raised |-> "none"]]

\* The local result of thread t, with the object as it is now.
ThreadAcc(t) ==
    [hf |-> objs[thr[t].obj], lines |-> thr[t].lines, cells |-> thr[t].cells,
     raised |-> thr[t].raised]

\* Thread t goes on from the result r of a step: an exception ends the call.
ThreadGoes(t, r, b, pc) ==
    /\ objs' = [objs EXCEPT ![thr[t].obj] = r.hf]
    /\ thr' = [thr EXCEPT ![t].lines = IF r.raised = "none" THEN r.lines ELSE <<>>,
                          ![t].cells = IF r.raised = "none" THEN r.cells ELSE <<>>,
                          ![t].raised = r.raised,
                          ![t].b = b,
                          ![t].pc = IF r.raised = "none" THEN pc ELSE "done"]
    /\ UNCHANGED <<histVars, hixVars, objVars>>

\* Lines 427-478 in thread t.
ThreadBegin(t) ==
    /\ thr[t].pc = "call"
    /\ \E c \in FewCounts(NBins(hf)) :
           LET p == Prologue(objs[thr[t].obj], c)
           IN /\ objs' = [objs EXCEPT ![thr[t].obj] = p.hf]
              /\ thr' = [thr EXCEPT ![t].counts = c,
                                    ![t].lines = IF p.raised = "none" THEN p.lines ELSE <<>>,
                                    ![t].raised = p.raised,
                                    ![t].b = 1,
                                    ![t].pc = IF p.raised = "none" THEN "bins" ELSE "done"]
    /\ UNCHANGED <<histVars, hixVars, objVars>>

\* One round of the "Write the bins" loop in thread t.
ThreadBin(t) ==
    /\ thr[t].pc = "bins"
    /\ LET b == thr[t].b
       IN ThreadGoes(t, BinStep(ThreadAcc(t), thr[t].counts, b), b + 1,
                     IF b = NBins(hf) THEN "summary" ELSE "bins")

\* Lines 484-489 in thread t, and the return.
ThreadEnd(t) ==
    /\ thr[t].pc = "summary"
    /\ ThreadGoes(t, Epilogue(ThreadAcc(t), thr[t].counts), thr[t].b, "done")

Begin == \E t \in Threads : ThreadBegin(t)

Bin == \E t \in Threads : ThreadBin(t)

End == \E t \in Threads : ThreadEnd(t)

NextThreads == Begin \/ Bin \/ End

SpecThreads == InitThreads /\ [][NextThreads]_vars

(***************************************************************************)
(* SpecHist: print_hist is called once, with a tuple (values, edges) or    *)
(* with a sequence of histogram objects.                                   *)
(***************************************************************************)
InitHist == \E s \in HistSetups : Constructed(s)

\* The integers of an array of floats that are all whole numbers.
Whole(m) ==
    [i \in 1..Len(m) |->
        [b \in 1..Len(m[i]) |-> IF m[i][b].k = "fin" THEN m[i][b].n ELSE 0]]

\* print_hist(h, **kw).
PrintHist(h) ==
    /\ hist = [kind |-> "none"]
    /\ hist' = h
    /\ \E ce \in {get_count_edges(h)} :
          IF ce.raised # "none"
          THEN /\ raised' = ce.raised
               /\ out' = <<>>
               /\ cells' = <<>>
               /\ UNCHANGED <<hf, counts>>
          ELSE \E r \in {format_counts(HistFormatter(ce.edges, kw), ce.count)} :
                  /\ hf' = r.hf
                  /\ counts' = Whole(CountsArray(ce.count))
                  /\ out' = r.lines
                  /\ cells' = r.cells
                  /\ raised' = r.raised
    /\ UNCHANGED <<family, kw, leftover, rich, hixVars, thrVars>>

PrintTuple == \E h \in TupleArgs(hf.edges) : PrintHist(h)

PrintSequence == \E h \in SequenceArgs(hf.edges) : PrintHist(h)

NextHist == PrintTuple \/ PrintSequence

SpecHist == InitHist /\ [][NextHist]_vars

(***************************************************************************)
(* SpecRich: a RichHistogram is made for a tuple (values, edges) that      *)
(* numpy.histogram returned (its values are counts, none is nan); the      *)
(* values are then updated in place and the RichHistogram is rendered, in  *)
(* any order and any number of times.                                      *)
(***************************************************************************)
InitRich ==
    \E s \in HistSetups :
       \E h \in {t \in TupleArgs(s.edges) :
                    /\ t.values.ndim = 1
                    /\ \A b \in 1..Len(t.values.data) : t.values.data[b].k = "fin"} :
          /\ family = "rich"
          /\ kw = s.kw
          /\ hf = HistFormatter(s.edges, s.kw)
          /\ counts = <<>>
          /\ out = <<>>
          /\ cells = <<>>
          /\ raised = "none"
          /\ leftover = "fresh"
          /\ hist = h
          /\ rich = RichHistogram(s.kw)
          /\ HixelIdle
          /\ ThreadsIdle

\* "count += ...": the values of the histogram change in place.
UpdateCounts ==
    /\ \E r \in RawRows(Len(hist.values.data)) :
          hist' = [hist EXCEPT !.values.data = r]
    /\ UNCHANGED <<rich, histVars, hixVars, thrVars>>

\* rich.print(hist): the console calls __rich__.
RichRender ==
    /\ UNCHANGED <<family, kw, leftover, hist, hixVars, thrVars>>
    /\ \E r \in {__rich__(rich, hist)} :
          /\ rich' = [rich EXCEPT !.text = r.text]
          /\ hf' = r.hf
          /\ counts' = Whole(CountsArray(hist.values))
          /\ out' = r.lines
          /\ cells' = r.cells
          /\ raised' = r.raised

NextRich == UpdateCounts \/ RichRender

SpecRich == InitRich /\ [][NextRich]_vars

(***************************************************************************)
(* SpecFrame: a caller holds an array of edges and an array of counts,     *)
(* builds a HistFormatter for the edges and calls format_histogram with    *)
(* the counts any number of times.  hist is what the caller's arrays hold. *)
(***************************************************************************)
InitFrame ==
    \E s \in HistSetups :
       \E h \in TupleArgs(s.edges) :
          /\ family = "frame"
          /\ kw = s.kw
          /\ hf = HistFormatter(s.edges, s.kw)
          /\ counts = <<>>
          /\ out = <<>>
          /\ cells = <<>>
          /\ raised = "none"
          /\ leftover = "fresh"
          /\ hist = [kind |-> "arrays", values |-> h.values,
                     edges |-> [i \in 1..Len(s.edges) |-> Fin(s.edges[i], 1)]]
          /\ rich = [kind |-> "none"]
          /\ HixelIdle
          /\ ThreadsIdle

\* The call gets as far as line 466: neither the scale (line 452) nor the
\* title line (line 459) has raised.
DivisionReached(f) ==
    /\ ~ScaleRaises(f)
    /\ ~(Len(f.title) > 0 /\ f.columns < 0)

\* hist_formatter.format_histogram(counts) with the caller's counts.
FormatCaller ==
    /\ \E r \in {format_counts(hf, hist.values)} :
          /\ hf' = r.hf
          /\ counts' = Whole(CountsArray(hist.values))
          /\ out' = r.lines
          /\ cells' = r.cells
          /\ raised' = r.raised
          /\ hist' = [hist EXCEPT
                         !.values = CountsAfter(@),
                         !.edges = IF DivisionReached(hf)
                                   THEN EdgesAfter(@, CommonExponent(hf.edges))
                                   ELSE @]
    /\ UNCHANGED <<family, kw, leftover, rich, hixVars, thrVars>>

NextFrame == FormatCaller

SpecFrame == InitFrame /\ [][NextFrame]_vars

(***************************************************************************)
(* Observations of the last render, used by the claims.                    *)
(***************************************************************************)
Rendered == counts # <<>> /\ raised = "none"

Series == 1..Len(counts)

Bins == 1..Len(cells)

\* The columns left for the marks: the column budget less the axis prefix.
MarkColumns ==
    hf.columns - (hf.bin_formatter.tick_format_width + Len(hf.bin_formatter.tick_mark))

\* The bins whose content is the peak.
PeakBins == {b \in Bins : BinContent(hf, counts, b) = MaxContent(hf, counts, NBins(hf))}

SomePositive == \E i \in Series : \E b \in 1..Len(counts[i]) : counts[i][b] > 0

AllZero(b) == \A i \in Series : counts[i][b] = 0

\* Python's line.rstrip(): the line without its trailing blanks.
RECURSIVE RStrip(_)
RStrip(line) ==
    IF line # <<>> /\ line[Len(line)] = " "
    THEN RStrip(SubSeq(line, 1, Len(line) - 1))
    ELSE line

\* The lines of the returned text that the bins wrote: those after the title
\* and the header, one for every line of every bin.
BinRowsText ==
    SubSeq(out, Len(TitleLines(hf)) + 2,
           Len(TitleLines(hf)) + 1 + SumSeq([b \in Bins |-> Len(cells[b])]))

\* The axis prefixes a bin line can start with.
AxisPrefixes ==
    {no_tick(hf.bin_formatter)}
    \cup {tick(hf.bin_formatter, ScaledEdge(hf.edges[e], CommonExponent(hf.edges))) :
             e \in 1..Len(hf.edges)}

AllZeroCounts == counts # <<>> /\ \A b \in 1..NBins(hf) : AllZero(b)

\* The height of series i in bin b, from the scale the render stored.
HeightOf(i, b) ==
    Heights(hf.bin_formatter, Column(counts, b), hf.bin_lines[b])[i]

(***************************************************************************)
(* C1: every line of the text returned by format_histogram has at most     *)
(* `columns` visible characters (escape sequences and zero-width           *)
(* combining marks not counted).  The code does not keep to it.            *)
(***************************************************************************)
C1_ColumnBound == \A i \in 1..Len(out) : VisibleLen(out[i]) <= hf.columns

(***************************************************************************)
(* C2: a single series rendered without colour: the longest line, trailing *)
(* whitespace stripped, is exactly `columns` characters long.  It fails    *)
(* where C1 fails: a line is longer than the column budget.                *)
(***************************************************************************)
C2_WidestLineIsColumns ==
    (Rendered /\ Len(counts) = 1 /\ ~hf.bin_formatter.use_color)
    => /\ \A i \in 1..Len(out) : VisibleLen(RStrip(out[i])) <= hf.columns
       /\ \E i \in 1..Len(out) : VisibleLen(RStrip(out[i])) = hf.columns

(***************************************************************************)
(* C3: with no max_count override and some positive count, every line of   *)
(* a peak bin (greatest sum over series in stack mode, greatest maximum in *)
(* overlay mode, per line of the bin in count-area mode) holds exactly     *)
(* columns minus axis width cells, and a bin whose counts are all zero     *)
(* holds no marks.  Stack mode falls short of the width.                   *)
(***************************************************************************)
C3_PeakFillsExactly ==
    (Rendered /\ ~Given(hf.max_count) /\ SomePositive)
    => /\ \A b \in PeakBins : \A l \in 1..Len(cells[b]) :
              Len(cells[b][l]) = MarkColumns
       /\ \A b \in Bins : AllZero(b) => \A l \in 1..Len(cells[b]) : cells[b][l] = <<>>

(***************************************************************************)
(* C4: for exactly one series, stack mode and overlay mode return the same *)
(* text (and raise alike), all else being equal.                           *)
(***************************************************************************)
C4_SingleSeriesStackOverlay ==
    (counts # <<>> /\ Len(counts) = 1)
    => LET other == print_hist(hf.edges, counts, [kw EXCEPT !.stack = ~@])
       IN out = other.lines /\ raised = other.raised

\* One series rendered in stack mode, with marks in some bin.
C4_Witness ==
    /\ Rendered /\ Len(counts) = 1 /\ kw.stack
    /\ \E b \in Bins : Len(cells[b]) >= 1 /\ Len(cells[b][1]) >= 2

(***************************************************************************)
(* C5: every bin's row budget (bin_lines) is an integer >= 1.  The code    *)
(* does not keep to it when the line budget leaves fewer than zero rows.   *)
(***************************************************************************)
C5_RowBudgetAtLeastOne == \A b \in 1..Len(hf.bin_lines) : hf.bin_lines[b] >= 1

(***************************************************************************)
(* C6: Hixel.add, and so the Hixel constructor, with a symbol other than   *)
(* space, "=", "|", "\" or "/" raises ValueError, and the failing add      *)
(* leaves glyph, compose mark, foreground and background as they were.     *)
(***************************************************************************)
C6_Symbols == {" ", "=", "|", "\\", "/"}

C6_InvalidSymbolRaises ==
    [][\A char \in CellChars \ C6_Symbols, fg \in CellFg, bg \in CellBg :
           /\ CellAdd(char, fg, bg)
              => /\ hixRaised' = "ValueError"
                 /\ hix'.character = hix.character
                 /\ hix'.compose = hix.compose
                 /\ hix'.fg_color = hix.fg_color
                 /\ hix'.bg_color = hix.bg_color
           /\ \A compose \in {" ", None} :
                  CellNew(char, fg, bg, compose)
                  => hixRaised' = "ValueError" /\ hix' = hix]_vars

\* A failed add on a cell that holds marks.
C6_Witness ==
    /\ hixOp = "add" /\ hixRaised = "ValueError"
    /\ hix.character = "|" /\ hix.compose = "/"

(***************************************************************************)
(* C7: overlay mode, two series of one foreground colour with the symbols  *)
(* "/" and "\" (in either order): every cell both series reach holds the   *)
(* cross "X", rendered as both combining diagonals.                        *)
(***************************************************************************)
C7_Case ==
    /\ Rendered /\ Len(counts) = 2 /\ ~hf.bin_formatter.stack
    /\ {Cycle(hf.bin_formatter.symbols, 1), Cycle(hf.bin_formatter.symbols, 2)}
           = {"/", "\\"}
    /\ Cycle(hf.bin_formatter.fg_colors, 1) = Cycle(hf.bin_formatter.fg_colors, 2)

C7_DiagonalsCompose ==
    C7_Case
    => \A b \in Bins : \A l \in 1..Len(cells[b]) : \A p \in 1..Len(cells[b][l]) :
           (p <= HeightOf(1, b) /\ p <= HeightOf(2, b))
           => /\ cells[b][l][p].compose = "X"
              /\ LET glyph == render(cells[b][l][p], FALSE)
                 IN /\ \E t \in 1..Len(glyph) : glyph[t] = "U+20E5"
                    /\ \E t \in 1..Len(glyph) : glyph[t] = "U+20EB"

\* Both series reach the second cell of some bin, the first series being
\* the taller there.
C7_Witness ==
    /\ C7_Case
    /\ \E b \in Bins : /\ Len(cells[b]) >= 1
                       /\ HeightOf(1, b) > HeightOf(2, b)
                       /\ HeightOf(2, b) >= 2
                       /\ cells[b][1][2].compose = "X"

(***************************************************************************)
(* C8: stack mode: each line of a bin is, in series order, the run of      *)
(* floor(count_i / effectiveScale) fresh cells of series i, each carrying  *)
(* only that series' symbol and colours.                                   *)
(***************************************************************************)
\* floor(count / effectiveScale) for series i in bin b.
C8_Height(i, b) ==
    LET sc == hf.bin_formatter.scale
        w == IF hf.bin_formatter.count_area THEN hf.bin_lines[b] ELSE 1
    IN IF sc.n = 0 THEN counts[i][b]
       ELSE FloorDiv(counts[i][b] * sc.d, sc.n * w)

\* A cell that holds the mark of series i and nothing else.
C8_Cell(i) ==
    LET bf == hf.bin_formatter
        s == Cycle(bf.symbols, i)
        diagonal == s = "/" \/ s = "\\"
    IN [character |-> IF diagonal THEN " " ELSE s,
        compose |-> IF diagonal THEN s
                    ELSE IF \E j \in Series : j <= Len(bf.symbols)
                                              /\ bf.symbols[j] \in {"/", "\\"}
                         THEN " " ELSE None,
        fg_color |-> Cycle(bf.fg_colors, i),
        bg_color |-> Cycle(bf.bg_colors, i),
        use_color |-> bf.use_color]

C8_StackConcatenation ==
    (Rendered /\ hf.bin_formatter.stack)
    => \A b \in Bins : \A l \in 1..Len(cells[b]) :
           cells[b][l] =
               Flatten([i \in Series |-> Repeat(C8_Cell(i), C8_Height(i, b))])

\* Two stacked series, both with marks in one bin.
C8_Witness ==
    /\ Rendered /\ hf.bin_formatter.stack /\ Len(counts) = 2
    /\ \E b \in Bins : /\ Len(cells[b]) >= 1
                       /\ C8_Height(1, b) >= 1 /\ C8_Height(2, b) >= 2
                       /\ Len(cells[b][1]) = C8_Height(1, b) + C8_Height(2, b)

(***************************************************************************)
(* C9: rendering the same (edges, counts, config) again returns the same   *)
(* text, whatever the formatter rendered before: the text of every call    *)
(* is the text a formatter made anew returns.                              *)
(***************************************************************************)
C9_Deterministic ==
    counts # <<>>
    => LET anew == print_hist(hf.edges, counts, kw)
       IN out = anew.lines /\ raised = anew.raised

\* A call on a formatter that an earlier call left with another scale or
\* compose setting.
C9_Witness == Rendered /\ leftover = "other" /\ Len(out) >= 2

(***************************************************************************)
(* C10: render calls share no mutable state: however two concurrent        *)
(* renders of independent data interleave, each returns the text (or       *)
(* raises the exception) it returns when run alone.                        *)
(***************************************************************************)
C10_EachAsAlone ==
    \A t \in DOMAIN thr :
        thr[t].pc = "done"
        => LET alone == format_histogram(hf, thr[t].counts)
           IN thr[t].lines = alone.lines /\ thr[t].raised = alone.raised

RECURSIVE C12_Fields(_)
C12_Fields(line) ==
    IF line = <<>> THEN <<>>
    ELSE IF line[1] = " " THEN C12_Fields(Tail(line))
    ELSE LET n == CHOOSE k \in 1..Len(line) :
                      /\ \A j \in 1..k : line[j] # " "
                      /\ k = Len(line) \/ line[k + 1] = " "
         IN <<SubSeq(line, 1, n)>> \o C12_Fields(SubSeq(line, n + 1, Len(line)))

\* A statistic line: the name and one value per series.
C12_StatLine(line, name, values) ==
    C12_Fields(line) = <<name>> \o [i \in Series |-> C12_Fields(values[i])[1]]

C12_SummaryLines ==
    (/\ counts # <<>> /\ hf.summary
     /\ print_hist(hf.edges, counts, [kw EXCEPT !.summary = FALSE]).raised = "none")
    => /\ raised = "none"
       /\ LET n == Len(out)
              top == SubSeq(hf.edges, 1, NBins(hf))
              bottom == SubSeq(hf.edges, 2, NBins(hf) + 1)
              ce == CommonExponent(hf.edges)
          IN /\ n >= 4
             /\ out[n - 3] = LegendLine(hf, counts)
             /\ C12_StatLine(out[n - 2], <<"T", "o", "t", ":">>,
                    [i \in Series |-> E2Format(Fin(SumSeq(counts[i]), 1))])
             /\ C12_StatLine(out[n - 1], <<"A", "v", "g", ":">>,
                    [i \in Series |-> E2Format(Average(counts[i], top, bottom, ce))])
             /\ C12_StatLine(out[n], <<"S", "t", "d", ":">>,
                    [i \in Series |-> E2FormatSqrt(Variance(counts[i], top, bottom, ce))])

(***************************************************************************)
(* C13: counts that are nan are rendered as 0.  Printing a tuple whose     *)
(* values contain nan ends as printing the same tuple with every nan       *)
(* replaced by 0 ends: with the same text (header scale, bin lines and     *)
(* summary) and with no exception that the latter does not raise.          *)
(***************************************************************************)
C13_ZeroRow(r) == [b \in 1..Len(r) |-> IF r[b].k = "nan" THEN Fin(0, 1) ELSE r[b]]

C13_Zeroed(h) ==
    [h EXCEPT !.values.data =
        IF h.values.ndim = 1 THEN C13_ZeroRow(@)
        ELSE [i \in 1..Len(@) |-> C13_ZeroRow(@[i])]]

C13_HasNan(h) ==
    /\ h.kind = "tuple"
    /\ C13_Zeroed(h) # h

C13_NanAsZero ==
    C13_HasNan(hist)
    => /\ out = print_hist_of(C13_Zeroed(hist), kw).lines
       /\ raised = print_hist_of(C13_Zeroed(hist), kw).raised

C13_Witness ==
    /\ C13_HasNan(hist)
    /\ hist.values.ndim = 2
    /\ Rendered
    /\ hf.summary
    /\ SomePositive

(***************************************************************************)
(* C14: a RichHistogram refers to the histogram it was given and reads its *)
(* counts and edges in every __rich__ call.  Whatever was rendered before  *)
(* and however the counts were updated in place since, a render returns    *)
(* the Text (or raises the exception) that the first render of a           *)
(* RichHistogram newly made for the histogram as it is now, with the same  *)
(* keyword arguments, returns.                                             *)
(***************************************************************************)
C14_ReadsAnew ==
    [][RichRender
       => \E anew \in {__rich__(RichHistogram(rich.kwargs), hist)} :
             /\ rich'.text = anew.text
             /\ raised' = anew.raised]_vars

\* A render in colour after an update in place: the values hold a nan,
\* which they did not when the RichHistogram was made, and the Text shows
\* them as they are now.
C14_Witness ==
    /\ family = "rich"
    /\ \E b \in 1..Len(hist.values.data) : hist.values.data[b].k = "nan"
    /\ rich.text # <<>>
    /\ Rendered
    /\ SomePositive
    /\ hf.bin_formatter.use_color
    /\ rich.text = __rich__(RichHistogram(kw), hist).text

(***************************************************************************)
(* C15: print_hist of a sequence of histogram objects over the same bin    *)
(* edges ends as print_hist of the tuple (list of their value arrays, the  *)
(* common edges) ends, under the same keyword arguments: same text, same   *)
(* exception if any.                                                       *)
(***************************************************************************)
C15_SharedEdges(h) ==
    /\ h.kind = "sequence"
    /\ \A i \in 1..Len(h.items) : h.items[i].axis = h.items[1].axis

C15_AsTuple(h) ==
    [kind |-> "tuple",
     values |-> Array2D([i \in 1..Len(h.items) |-> h.items[i].values.data]),
     edges |-> hf.edges]

C15_SequenceAsTuple ==
    C15_SharedEdges(hist)
    => /\ out = print_hist_of(C15_AsTuple(hist), kw).lines
       /\ raised = print_hist_of(C15_AsTuple(hist), kw).raised

C15_Witness ==
    /\ C15_SharedEdges(hist)
    /\ Len(hist.items) = 2
    /\ hist.items[1].values # hist.items[2].values
    /\ Rendered
    /\ \E b \in Bins : counts[2][b] > counts[1][b]

(***************************************************************************)
(* C16: an add of a symbol other than space whose foreground differs from  *)
(* the cell's sets the cell's foreground to the incoming one and its base  *)
(* glyph to what the incoming mark alone gives (the line symbol itself;    *)
(* blank for a diagonal, which goes to the compose slot): the glyph that   *)
(* was there is not merged in.  An add of a space whose foreground differs *)
(* changes neither glyph, compose mark nor foreground.  So every add of a  *)
(* symbol other than space leaves the cell with that add's foreground, and *)
(* every add of a space leaves the foreground as it was.                   *)
(***************************************************************************)
C16_Step(char, fg) ==
    /\ (char # " " /\ fg # hix.fg_color)
       => /\ hix'.fg_color = fg
          /\ hix'.character = IF char \in COMPOSING_SYMBOLS THEN " " ELSE char
    /\ (char = " " /\ fg # hix.fg_color)
       => /\ hix'.character = hix.character
          /\ hix'.compose = hix.compose
          /\ hix'.fg_color = hix.fg_color
    /\ hix'.fg_color = IF char # " " THEN fg ELSE hix.fg_color

C16_ForegroundOverwrites ==
    [][\A char \in CellChars, fg \in CellFg, bg \in CellBg :
          (CellAdd(char, fg, bg) /\ hixRaised' = "none") => C16_Step(char, fg)]_vars

\* A cell that adds have brought to the foreground "W", with '=' as its
\* glyph, both diagonals in its compose slot and a background.
C16_Witness ==
    /\ hixOp = "add"
    /\ hixRaised = "none"
    /\ hix.character = "="
    /\ hix.fg_color = "W"
    /\ hix.compose = "X"
    /\ hix.bg_color = "r"

(***************************************************************************)
(* C17: for an add whose foreground is the cell's, '|' and '=' merge to    *)
(* '#' in either order and '#' absorbs either again; '/' and '\' merge to  *)
(* 'X' in the compose slot in either order; for every other combination    *)
(* the slot keeps the newest symbol that is not a space, so that neither   *)
(* an add of a space nor an add of a symbol that is there already removes  *)
(* a mark.  (Where the cell holds 'X' and a diagonal is added again, both  *)
(* 'X' and that diagonal are taken as keeping to it.)  The code does not   *)
(* keep to it: a space of the same foreground blanks the glyph, and a      *)
(* diagonal added onto itself or onto 'X' empties the compose slot for     *)
(* good.                                                                   *)
(***************************************************************************)
C17_Step(char) ==
    /\ char \notin COMPOSING_SYMBOLS
       => hix'.character =
             CASE {hix.character, char} = {"|", "="} -> "#"
               [] hix.character = "#" /\ char \in {"|", "="} -> "#"
               [] char = " " -> hix.character
               [] OTHER -> char
    /\ (char \in COMPOSING_SYMBOLS /\ hix.compose # None)
       => CASE {hix.compose, char} = {"/", "\\"} -> hix'.compose = "X"
            [] hix.compose = "X" -> hix'.compose \in {"X", char}
            [] OTHER -> hix'.compose = char

C17_SameForegroundMerge ==
    [][\A char \in CellChars, fg \in CellFg, bg \in CellBg :
          (CellAdd(char, fg, bg) /\ hixRaised' = "none" /\ fg = hix.fg_color)
          => C17_Step(char)]_vars

(***************************************************************************)
(* C18: overlay mode, counts not negative: every line of a bin has as many *)
(* cells as the largest height of a series in that bin, and the cell at    *)
(* position p (counted from 1) is what comes of the marks of the series    *)
(* whose height is at least p, and of no other, in series order: the first *)
(* of them makes the cell, each later one is added to it.                  *)
(***************************************************************************)
\* The cell at position p of bin b after the series 1..i: <<>> while no
\* series has reached p.
RECURSIVE C18_Cell(_, _, _)
C18_Cell(b, p, i) ==
    IF i = 0 THEN <<>>
    ELSE LET before == C18_Cell(b, p, i - 1)
             bf == hf.bin_formatter
             s == Cycle(bf.symbols, i)
             fg == Cycle(bf.fg_colors, i)
             bg == Cycle(bf.bg_colors, i)
         IN IF HeightOf(i, b) < p THEN before
            ELSE IF before = <<>>
                 THEN <<Hixel(s, fg, bg, bf.use_color, bf.compose)>>
                 ELSE <<add(before[1], s, fg, bg)>>

C18_Tallest(b) ==
    IF Series = {} THEN 0
    ELSE CHOOSE h \in {HeightOf(i, b) : i \in Series} :
             \A j \in Series : HeightOf(j, b) <= h

C18_NotNegative == \A i \in Series : \A b \in 1..Len(counts[i]) : counts[i][b] >= 0

C18_OverlayMarks ==
    (Rendered /\ ~hf.bin_formatter.stack /\ C18_NotNegative)
    => \A b \in Bins : \A l \in 1..Len(cells[b]) :
          /\ Len(cells[b][l]) = C18_Tallest(b)
          /\ \A p \in 1..Len(cells[b][l]) :
                <<cells[b][l][p]>> = C18_Cell(b, p, Len(counts))

\* Two overlaid series in one bin: the second is the taller, so it marks
\* the cells the first has made and lengthens the line.
C18_Witness ==
    /\ Rendered
    /\ ~hf.bin_formatter.stack
    /\ C18_NotNegative
    /\ Len(counts) = 2
    /\ \E b \in Bins :
          /\ cells[b] # <<>>
          /\ 0 < HeightOf(1, b)
          /\ HeightOf(1, b) < HeightOf(2, b)
          /\ cells[b][1][1] # cells[b][1][HeightOf(2, b)]

(***************************************************************************)
(* C19: the symbol scale is peak / (columns - axis width) * 0.999, with    *)
(* peak the max_count override if given and else the largest bin content;  *)
(* whenever that computation gives zero or no finite value (the peak is    *)
(* zero, or no column is left for the marks), the render completes without *)
(* an exception and its heights are computed with the scale 1.  The code   *)
(* does not keep to it when no column is left.                             *)
(***************************************************************************)
\* The height of a count under the scale 1 in bin b.
C19_UnitHeight(c, b) ==
    FloorDiv(c, IF hf.bin_formatter.count_area THEN hf.bin_lines[b] ELSE 1)

\* The number of cells in a line of bin b when the heights come from the
\* scale 1.
C19_UnitLength(b) ==
    IF hf.bin_formatter.stack
    THEN SumSeq([i \in Series |-> C19_UnitHeight(counts[i][b], b)])
    ELSE C19_UnitHeight(MaxSeq(Column(counts, b)), b)

\* The computation gives zero or no finite value.
C19_Degenerate ==
    \/ HistWidth(hf) = 0
    \/ IsZero(MaxC(hf, counts))

C19_ScaleFallback ==
    (counts # <<>> /\ HistWidth(hf) >= 0 /\ hf.hist_lines >= NBins(hf))
    => IF C19_Degenerate
       THEN /\ raised = "none"
            /\ \A b \in Bins : \A l \in 1..Len(cells[b]) :
                  Len(cells[b][l]) = C19_UnitLength(b)
       ELSE raised = "none"
            => hf.bin_formatter.scale
               = MulRat(NpDivInt(MaxC(hf, counts), HistWidth(hf)), 999, 1000)

(***************************************************************************)
(* C20: constructing a cell with (symbol, fg, bg) gives the state (glyph,  *)
(* compose mark, foreground, background) that an empty cell (blank glyph,  *)
(* foreground "0", background "0") has after one add(symbol, fg, bg), for  *)
(* every allowed symbol and all colours.  As stated this fails for a space *)
(* in a foreground other than "0": the constructor stores the foreground,  *)
(* the add of a space leaves it alone.                                     *)
(***************************************************************************)
\* The empty cell after add(char, fg, bg).
C20_EmptyThenAdd(char, fg, bg, compose) ==
    add([character |-> " ", compose |-> compose, fg_color |-> "0",
         bg_color |-> "0", use_color |-> hix.use_color], char, fg, bg)

C20_ConstructIsAdd ==
    [][\A char \in CellChars, fg \in CellFg, bg \in CellBg, compose \in {" ", None} :
          (CellNew(char, fg, bg, compose) /\ hixRaised' = "none")
          => hix' = C20_EmptyThenAdd(char, fg, bg, compose)]_vars

(***************************************************************************)
(* C20, amended: the constructed cell is the empty cell after one          *)
(* add(symbol, fg, bg) in glyph, compose mark and background always, and   *)
(* in foreground too unless the symbol is a space: a cell constructed with *)
(* a space has the foreground it was given, where the add leaves "0".      *)
(***************************************************************************)
C20_ConstructIsAddButForeground ==
    [][\A char \in CellChars, fg \in CellFg, bg \in CellBg, compose \in {" ", None} :
          (CellNew(char, fg, bg, compose) /\ hixRaised' = "none")
          => /\ hix' = [C20_EmptyThenAdd(char, fg, bg, compose) EXCEPT !.fg_color = fg]
             /\ char # " " => hix' = C20_EmptyThenAdd(char, fg, bg, compose)
             /\ char = " " => C20_EmptyThenAdd(char, fg, bg, compose).fg_color = "0"]_vars

\* A cell constructed with a space in the foreground "W".
C20_Witness ==
    /\ hixOp = "new"
    /\ hixRaised = "none"
    /\ hix.character = " "
    /\ hix.compose = " "
    /\ hix.fg_color = "W"
    /\ hix.bg_color = "r"

(***************************************************************************)
(* C21: the glyph cells of a bin are uniform.  If the symbol of a plotted  *)
(* series (after cycling) is a diagonal, every cell of the bin that render *)
(* shows as a glyph (not as a block) is its base glyph followed by at      *)
(* least one zero-width combining character, the filler where the cell     *)
(* holds no diagonal; if no plotted series has a diagonal, no cell of the  *)
(* bin has a combining character.  The code does not keep to it: a         *)
(* diagonal overlaid on itself empties the compose slot (see C17).         *)
(***************************************************************************)
\* A plotted series has a diagonal as its symbol.
C21_DiagonalPlotted ==
    \E i \in Series : Cycle(hf.bin_formatter.symbols, i) \in {"/", "\\"}

\* The cell is rendered as a glyph, not as a block.
C21_GlyphBranch(h) ==
    ~(h.character = " " /\ h.compose \in {" ", None} /\ h.bg_color # "0")

C21_CellUniform(h) ==
    LET glyph == substitute_character(h.character, h.compose)
    IN IF C21_DiagonalPlotted
       THEN /\ Len(glyph) >= 2
            /\ glyph[1] \notin CombiningMarks
            /\ \A t \in 2..Len(glyph) : glyph[t] \in CombiningMarks
       ELSE \A t \in 1..Len(glyph) : glyph[t] \notin CombiningMarks

C21_UniformGlyphs ==
    Rendered
    => \A b \in Bins : \A l \in 1..Len(cells[b]) : \A p \in 1..Len(cells[b][l]) :
           C21_GlyphBranch(cells[b][l][p]) => C21_CellUniform(cells[b][l][p])

(***************************************************************************)
(* C22: an add with a background other than the transparent "0" sets the   *)
(* cell's background to it, whatever the symbol and whether or not the     *)
(* foregrounds match; an add with the background "0" leaves the cell's     *)
(* background as it was; the constructor sets the background it is given.  *)
(* So after any sequence of adds the background is that of the last add    *)
(* whose background was not "0", or the constructor's if there was none.   *)
(***************************************************************************)
C22_BackgroundOverwrites ==
    [][\A char \in CellChars, fg \in CellFg, bg \in CellBg :
          /\ (CellAdd(char, fg, bg) /\ hixRaised' = "none")
             => hix'.bg_color = IF bg # "0" THEN bg ELSE hix.bg_color
          /\ \A compose \in {" ", None} :
                (CellNew(char, fg, bg, compose) /\ hixRaised' = "none")
                => hix'.bg_color = bg]_vars

\* A cell with a background, in the default foreground, whose glyph two
\* adds have merged.
C22_Witness ==
    /\ hixOp = "add"
    /\ hixRaised = "none"
    /\ hix.character = "#"
    /\ hix.fg_color = "0"
    /\ hix.bg_color = "K"

(***************************************************************************)
(* C23: render returns the full block U+2588 exactly when the base glyph   *)
(* is blank, the compose slot is blank or disabled and the background is   *)
(* not transparent; the colour escape before the block is made of the      *)
(* background colour and its case-swapped variant, and the cell's          *)
(* foreground has no influence on what is returned.  In every other case   *)
(* render returns the (foreground, background) colour escape and then the  *)
(* substituted glyph.  The reset escape is appended exactly when reset is  *)
(* asked for.  (With colour off every escape is the empty string.)         *)
(***************************************************************************)
C23_Block(h) ==
    h.character = " " /\ h.compose \in {" ", None} /\ h.bg_color # "0"

C23_Escape(h, fg, bg) == IF h.use_color THEN <<EscToken(fg, bg)>> ELSE <<>>

C23_Expected(h, reset) ==
    (IF C23_Block(h)
     THEN C23_Escape(h, h.bg_color, swapcase(h.bg_color)) \o <<"U+2588">>
     ELSE C23_Escape(h, h.fg_color, h.bg_color)
          \o substitute_character(h.character, h.compose))
    \o (IF reset THEN C23_Escape(h, "0", "0") ELSE <<>>)

C23_RenderBranches ==
    [][\A reset \in BOOLEAN :
          CellRender(reset)
          => /\ hixText' = C23_Expected(hix, reset)
             /\ C23_Block(hix) <=> \E t \in 1..Len(hixText') : hixText'[t] = "U+2588"
             /\ C23_Block(hix)
                => \A fg \in Palette :
                      C23_Expected([hix EXCEPT !.fg_color = fg], reset) = hixText']_vars

\* A coloured block was rendered, with the reset, for a cell whose
\* foreground is not the default.
C23_Witness ==
    /\ hixOp = "render"
    /\ hix.use_color
    /\ hix.fg_color = "W"
    /\ hix.bg_color = "r"
    /\ hixText = <<EscToken("r", "R"), "U+2588", EscToken("0", "0")>>

(***************************************************************************)
(* C24: the usable row count is lines - 1, less 1 if the title is not      *)
(* empty, less 4 if a summary is asked for and else less 1 if some label   *)
(* is not empty; and a render that completes returns, besides the lines of *)
(* the bins, exactly lines minus that many lines: the title line if any,   *)
(* the axis header, and the four summary lines or the legend line or       *)
(* nothing.                                                                *)
(***************************************************************************)
C24_Usable ==
    kw.lines - 1
    - (IF kw.title # <<>> THEN 1 ELSE 0)
    - (IF kw.summary THEN 4
       ELSE IF \E i \in 1..Len(kw.labels) : kw.labels[i] # <<>> THEN 1
       ELSE 0)

\* The lines of the returned text that no bin wrote.
C24_NonBin == Len(out) - SumSeq([b \in Bins |-> Len(cells[b])])

C24_RowAccounting ==
    /\ hf.hist_lines = C24_Usable
    /\ Rendered => C24_NonBin = kw.lines - C24_Usable

\* A render of two labelled series with a title and no summary: title,
\* header and legend are the three lines no bin wrote.
C24_Witness ==
    /\ Rendered
    /\ kw.title # <<>>
    /\ ~kw.summary
    /\ kw.labels = << <<"A">>, <<"B">> >>
    /\ Len(counts) = 2
    /\ C24_NonBin = 3

(***************************************************************************)
(* C25: format_bin with a row budget of at least 1 returns exactly that    *)
(* many lines, every one starting with an axis prefix of the same length.  *)
(* Exactly one of them carries a tick label: the last, labelled with the   *)
(* bottom edge, or, when print_top_edge is set, the first, labelled with   *)
(* the top edge.  Every other line starts with blank padding.              *)
(***************************************************************************)
\* The lines of the returned text that bin b wrote.
C25_BinText(b) ==
    LET before == Len(TitleLines(hf)) + 1
                  + SumSeq([a \in 1..(b - 1) |-> Len(cells[a])])
    IN SubSeq(out, before + 1, before + Len(cells[b]))

\* The labelled edge of bin b, as the axis shows it.
C25_Label(b) ==
    tick(hf.bin_formatter,
         ScaledEdge(hf.edges[IF kw.print_top_edge THEN b ELSE b + 1],
                    CommonExponent(hf.edges)))

C25_Prefix(line) == SubSeq(line, 1, AxisWidth(hf))

C25_AxisPrefix ==
    Rendered
    => \A b \in Bins :
          hf.bin_lines[b] >= 1
          => /\ Len(C25_BinText(b)) = hf.bin_lines[b]
             /\ \A l \in 1..hf.bin_lines[b] :
                   /\ Len(C25_BinText(b)[l]) >= AxisWidth(hf)
                   /\ C25_Prefix(C25_BinText(b)[l])
                      = IF l = (IF kw.print_top_edge THEN 1 ELSE hf.bin_lines[b])
                        THEN C25_Label(b)
                        ELSE Repeat(" ", AxisWidth(hf))
             /\ C25_Label(b) # Repeat(" ", AxisWidth(hf))
             /\ Len(C25_Label(b)) = AxisWidth(hf)

\* A bin of several lines whose first line carries the label of its top
\* edge.
C25_Witness ==
    /\ Rendered
    /\ kw.print_top_edge
    /\ SomePositive
    /\ \E b \in Bins :
          /\ hf.bin_lines[b] >= 3
          /\ C25_Prefix(C25_BinText(b)[1]) = C25_Label(b)
          /\ C25_Prefix(C25_BinText(b)[3]) = Repeat(" ", AxisWidth(hf))

C27_IsEscape(tok) == tok \in EscapeTokens

C27_Strip(line) == SelectSeq(line, LAMBDA tok : ~C27_IsEscape(tok))

C27_Inferred ==
    \/ \E i \in 1..Len(kw.fg_colors) : kw.fg_colors[i] # "0"
    \/ \E i \in 1..Len(kw.bg_colors) : kw.bg_colors[i] # "0"

C27_ColourOff ==
    /\ kw.use_color = <<>> => (hf.bin_formatter.use_color <=> C27_Inferred)
    /\ kw.use_color # <<>> => hf.bin_formatter.use_color = kw.use_color[1]
    /\ (counts # <<>> /\ ~hf.bin_formatter.use_color)
       => \E coloured \in {print_hist(hf.edges, counts,
                                      [kw EXCEPT !.use_color = <<TRUE>>])} :
             /\ raised = coloured.raised
             /\ \A i \in 1..Len(out) : \A t \in 1..Len(out[i]) :
                   ~C27_IsEscape(out[i][t])
             /\ out = [i \in 1..Len(coloured.lines) |-> C27_Strip(coloured.lines[i])]

\* A render without colour, by inference, of two series with marks, whose
\* coloured counterpart the escape sequences make longer.
C27_Witness ==
    /\ Rendered
    /\ kw.use_color = <<>>
    /\ ~hf.bin_formatter.use_color
    /\ Len(counts) = 2
    /\ SomePositive
    /\ \E i \in 1..Len(out) :
          Len(out[i]) < Len(print_hist(hf.edges, counts,
                                       [kw EXCEPT !.use_color = <<TRUE>>]).lines[i])

(***************************************************************************)
(* C28: a series whose count in a bin is zero or negative draws nothing in *)
(* that bin, in stack mode and in overlay mode alike: the cells of the bin *)
(* are those that the other series alone make.  The code does not keep to  *)
(* it: in overlay mode a negative height h reaches line[:h], the cells of  *)
(* the series before it but for the last -h.                               *)
(***************************************************************************)
\* The cells of a line of bin b when only the series with a positive count
\* draw.
C28_PositiveOnly(b) ==
    BuildLine(hf.bin_formatter,
              [i \in Series |-> IF counts[i][b] > 0 THEN HeightOf(i, b) ELSE 0],
              Len(counts))

C28_NothingDrawn ==
    Rendered
    => \A b \in Bins : \A l \in 1..Len(cells[b]) :
           cells[b][l] = C28_PositiveOnly(b)

(***************************************************************************)
(* C29: every mark a cell shows (base glyph and compose mark) comes from   *)
(* adds in the cell's current foreground: an add that changes the          *)
(* foreground leaves neither a line mark nor a diagonal of the colour      *)
(* before, so the cell then holds the incoming mark and nothing else.  As  *)
(* stated this fails: the compose slot outlives the change of foreground.  *)
(***************************************************************************)
\* The add changes the cell's foreground.
C29_Changes(char, fg, bg) ==
    /\ CellAdd(char, fg, bg)
    /\ hixRaised' = "none"
    /\ hix'.fg_color # hix.fg_color

C29_OnlyCurrentColour ==
    [][\A char \in CellChars, fg \in CellFg, bg \in CellBg :
          C29_Changes(char, fg, bg)
          => /\ hix'.character = IF char \in {"/", "\\"} THEN " " ELSE char
             /\ hix'.compose = IF hix.compose = None THEN None
                               ELSE IF char \in {"/", "\\"} THEN char
                               ELSE " "]_vars

(***************************************************************************)
(* C29, amended: an add that changes the foreground leaves no line mark of *)
(* the colour before (the base glyph is the incoming line symbol, or blank *)
(* for a diagonal), but it does not clear the compose slot: a line symbol  *)
(* leaves the slot as it is, and a diagonal is combined with what the slot *)
(* holds as in an add of the same foreground (blank takes the diagonal,    *)
(* the other diagonal gives 'X', the same diagonal or 'X' gives None).  A  *)
(* diagonal of the colour before so stays in the cell, shown in the new    *)
(* foreground.                                                             *)
(***************************************************************************)
C29_ComposeOutlives ==
    [][\A char \in CellChars, fg \in CellFg, bg \in CellBg :
          C29_Changes(char, fg, bg)
          => /\ hix'.character = IF char \in {"/", "\\"} THEN " " ELSE char
             /\ hix'.compose =
                   IF char \notin {"/", "\\"} \/ hix.compose = None THEN hix.compose
                   ELSE IF hix.compose = " " THEN char
                   ELSE IF {hix.compose, char} = {"/", "\\"} THEN "X"
                   ELSE None]_vars

\* A cell in the foreground "W" with a line symbol over both diagonals.
C29_Witness ==
    /\ hixOp = "add"
    /\ hixRaised = "none"
    /\ hix.fg_color = "W"
    /\ hix.character = "|"
    /\ hix.compose = "X"
    /\ hix.bg_color = "0"

(***************************************************************************)
(* C30: a render that completes returns exactly (lines - usable rows) plus *)
(* the sum of the row budgets of the bins lines; and with scale_bin_width, *)
(* at least one usable row and no bin narrower than (last edge - first     *)
(* edge) / usable rows, the bins take no more lines than the usable rows,  *)
(* so that the text has no more than the requested lines.                  *)
(***************************************************************************)
\* The returned line count is the lines no bin takes plus the row budgets.
C30_LineCount ==
    Rendered => Len(out) = (kw.lines - hf.hist_lines) + SumSeq(hf.bin_lines)

\* No bin is narrower than the axis range over the usable rows.
C30_NoNarrowBin ==
    \A b \in 1..NBins(hf) :
        BinWidths(hf.edges)[b] * hf.hist_lines
            >= hf.edges[Len(hf.edges)] - hf.edges[1]

C30_FitsWithin ==
    (Rendered /\ kw.scale_bin_width /\ hf.hist_lines >= 1 /\ C30_NoNarrowBin)
    => /\ SumSeq([b \in Bins |-> Len(cells[b])]) <= hf.hist_lines
       /\ Len(out) <= kw.lines

C30_RowBudgetSum == C30_LineCount /\ C30_FitsWithin

=========================================================================
